---- MODULE Spec2Model ----
(***************************************************************************)
(* A model of the bitcask-style key/value engine of kv_store:              *)
(* the segment files on disk, the engine (open / replay, put, get, delete, *)
(* append with rotation) and the write batch (stage, commit).              *)
(*                                                                         *)
(* A segment file is the sequence of the log records appended to it; the   *)
(* byte offset of a record is the sum of the encoded lengths of the        *)
(* records before it.  Keys and values are byte sequences.                 *)
(***************************************************************************)
EXTENDS Naturals, Integers, Sequences, FiniteSets, Bags, TLC

(***************************************************************************)
(* Bounds of the model.                                                    *)
(***************************************************************************)
\* No operation appends once the directory holds this many records.
MaxRecords == 3
\* The same for the specification of the sequence numbers.
MaxTxnRecords == 4

(***************************************************************************)
(* Program constants and the inputs the operations are tried on.           *)
(***************************************************************************)
NON_TRANSACTION_SEQ_NO == 0
INITAL_DILE_ID == 0
TXN_FINISH == <<116, 120, 110, 45, 102, 105, 110>>
\* Options.data_file_size: the smallest size check_options accepts.
DataFileSize == 100

Val(b, n) == [i \in 1..n |-> b]
EmptyKey == <<>>
UserKeys == {<<97>>, <<98>>}
Keys == UserKeys \cup {EmptyKey}
Values == {Val(1, 40), Val(2, 45)}
\* WriteBatchOptions.max_batch_num values a batch is created with.
MaxBatchNums == {1, 2}

NORMAL == "NORMAL"
DELETED == "DELETED"
TXNFINISH == "TXNFINISH"

(***************************************************************************)
(* prost's length-delimiter (base-128 varint) codec.                       *)
(***************************************************************************)
RECURSIVE encode_length_delimiter(_)
encode_length_delimiter(n) ==
    IF n < 128 THEN <<n>>
    ELSE <<128 + (n % 128)>> \o encode_length_delimiter(n \div 128)

RECURSIVE decode_length_delimiter(_)
\* The decoded number and the bytes left in the buffer.
decode_length_delimiter(buf) ==
    IF buf[1] < 128 THEN [value |-> buf[1], rest |-> Tail(buf)]
    ELSE LET r == decode_length_delimiter(Tail(buf))
         IN [value |-> (buf[1] - 128) + 128 * r.value, rest |-> r.rest]

length_delimiter_len(n) ==
    IF n < 128 THEN 1
    ELSE IF n < 16384 THEN 2
    ELSE IF n < 2097152 THEN 3
    ELSE IF n < 268435456 THEN 4
    ELSE 5

(***************************************************************************)
(* batch.rs: the sequenced key  varint(seq_no) ++ user key.                *)
(***************************************************************************)
log_record_key_with_seq(key, seq) == encode_length_delimiter(seq) \o key

parse_log_record_key(key) ==
    LET d == decode_length_delimiter(key)
    IN [real_key |-> d.rest, seq_no |-> d.value]

(***************************************************************************)
(* log_record.rs: a log record and the length of its encoding              *)
(* type(1) | key_size | value_size | key | value | crc(4).                 *)
(***************************************************************************)
LogRecord(k, v, t) == [key |-> k, value |-> v, rec_type |-> t]

encoded_length(r) ==
    1 + length_delimiter_len(Len(r.key)) + length_delimiter_len(Len(r.value))
      + Len(r.key) + Len(r.value) + 4

LogRecordPos(fid, off) == [file_id |-> fid, offset |-> off]

\* LogRecordType as u8, and LogRecordType::from_u8 (which panics on any
\* other byte).
type_u8(t) == IF t = NORMAL THEN 1 ELSE IF t = DELETED THEN 2 ELSE 3
from_u8(v) == IF v = 1 THEN NORMAL ELSE IF v = 2 THEN DELETED ELSE TXNFINISH
known_u8(v) == v \in {1, 2, 3}

\* crc32fast::Hasher over buf, as a position-weighted checksum: like the
\* CRC it is a function of the bytes that changes when one byte changes.
WeightedSum(buf) ==
    BagCardinality([i \in {j \in 1..Len(buf) : buf[j] > 0} |-> i * buf[i]])

crc32(buf) == (Len(buf) + WeightedSum(buf)) % 16777216

\* BufMut::put_u32: big endian.
put_u32(n) ==
    <<(n \div 16777216) % 256, (n \div 65536) % 256, (n \div 256) % 256,
      n % 256>>

\* LogRecord::encode_and_get_crc: the bytes before the checksum, the
\* checksum, and the encoding.
header_and_kv(r) ==
    <<type_u8(r.rec_type)>> \o encode_length_delimiter(Len(r.key))
        \o encode_length_delimiter(Len(r.value)) \o r.key \o r.value

get_crc(r) == crc32(header_and_kv(r))
encode(r) == header_and_kv(r) \o put_u32(get_crc(r))

\* max_log_record_header_size: the type byte and two lengths of u32::MAX,
\* whose length_delimiter_len is 5.
max_log_record_header_size == 1 + 5 * 2

(***************************************************************************)
(* data_file.rs / file_io.rs: a file is the sequence of records written to *)
(* it (the descriptor is opened in append mode, so a write always lands at *)
(* the end of the file, whatever the handle's write_off says).             *)
(***************************************************************************)
\* An entry of a file is a record, stored as its encoding, or bytes that
\* no append of a whole record wrote: [raw |-> bytes].
IsRaw(e) == DOMAIN e = {"raw"}
EntryBytes(e) == IF IsRaw(e) THEN e.raw ELSE encode(e)

RECURSIVE FileBytes(_)
FileBytes(f) ==
    IF f = <<>> THEN <<>> ELSE EntryBytes(Head(f)) \o FileBytes(Tail(f))

FileLen(f) == Len(FileBytes(f))

\* Byte offset of the i-th entry of file f.
RecordOffset(f, i) == FileLen(SubSeq(f, 1, i - 1))

\* FileIO::read (read_at) into a zeroed buffer of n bytes: the bytes of the
\* file from offset on, and zeros where the file has ended.
ReadAt(bytes, offset, n) ==
    [i \in 1..n |-> IF offset + i <= Len(bytes) THEN bytes[offset + i] ELSE 0]

\* prost::decode_length_delimiter fails on a buffer that does not start
\* with a complete varint; the caller unwraps.  A varint of 5 bytes or more
\* is a size of 2^28 or more, which the buffer of the read that follows
\* cannot be allocated for: it counts as a failure here.
ValidDelimiter(buf) ==
    \E i \in 1..(IF Len(buf) < 4 THEN Len(buf) ELSE 4) : buf[i] < 128

\* DataFile::read_log_record, in the order of its statements.  The result is
\* ReadDataFileEOF on a header of two zero sizes, InvalidLogRecordCrc when
\* the stored checksum is not that of the decoded record, "panic" where the
\* code panics (an unwrap of a failed decode, a type byte from_u8 does not
\* know), else the record and its size.

\* The comparison of the stored checksum with that of the decoded record.
read_log_record_crc(rec_type, key_size, value_size, kv_buf, size) ==
    IF ~known_u8(rec_type) THEN [res |-> "panic"]
    ELSE IF SubSeq(kv_buf, key_size + value_size + 1, key_size + value_size + 4)
              # put_u32(get_crc(LogRecord(
                    SubSeq(kv_buf, 1, key_size),
                    SubSeq(kv_buf, key_size + 1, key_size + value_size),
                    from_u8(rec_type))))
    THEN [res |-> "InvalidLogRecordCrc"]
    ELSE [res |-> "ok",
          record |-> LogRecord(
              SubSeq(kv_buf, 1, key_size),
              SubSeq(kv_buf, key_size + 1, key_size + value_size),
              from_u8(rec_type)),
          size |-> size]

\* A variant of read_log_record_kv without the end-of-file test.
read_log_record_kv_NoEof(bytes, offset, rec_type, key_size, value_size, actual_header_size) ==
    read_log_record_crc(
        rec_type, key_size, value_size,
        ReadAt(bytes, offset + actual_header_size, key_size + value_size + 4),
        actual_header_size + key_size + value_size + 4)

\* The end-of-file test and the read of key, value and checksum.
read_log_record_kv(bytes, offset, rec_type, key_size, value_size, actual_header_size) ==
    IF key_size = 0 /\ value_size = 0 THEN [res |-> "ReadDataFileEOF"]
    ELSE read_log_record_crc(
             rec_type, key_size, value_size,
             ReadAt(bytes, offset + actual_header_size,
                    key_size + value_size + 4),
             actual_header_size + key_size + value_size + 4)

\* The decoding of the two sizes; d1 is the decoded key size and the rest of
\* the header buffer.
read_log_record_sizes(bytes, offset, rec_type, d1) ==
    IF ~ValidDelimiter(d1.rest) THEN [res |-> "panic"]
    ELSE read_log_record_kv(
             bytes, offset, rec_type, d1.value,
             decode_length_delimiter(d1.rest).value,
             length_delimiter_len(d1.value)
                 + length_delimiter_len(decode_length_delimiter(d1.rest).value)
                 + 1)

\* The type byte and the key size of the header buffer.
read_log_record_header(bytes, offset, header_buf) ==
    IF ~ValidDelimiter(Tail(header_buf)) THEN [res |-> "panic"]
    ELSE read_log_record_sizes(bytes, offset, header_buf[1],
                               decode_length_delimiter(Tail(header_buf)))

read_log_record_at(bytes, offset) ==
    read_log_record_header(
        bytes, offset, ReadAt(bytes, offset, max_log_record_header_size))

read_log_record(f, offset) == read_log_record_at(FileBytes(f), offset)

(***************************************************************************)
(* index/btree.rs: the memory index, a map from user key to locator.       *)
(***************************************************************************)
EmptyIndex == [k \in {} |-> LogRecordPos(0, 0)]

\* A variant of BTree_put that keeps the locator of a key that is present.
BTree_put_KeepOld(idx, key, pos) ==
    [k \in DOMAIN idx \cup {key} |-> IF k \in DOMAIN idx THEN idx[k] ELSE pos]

BTree_put(idx, key, pos) ==
    [k \in DOMAIN idx \cup {key} |-> IF k = key THEN pos ELSE idx[k]]

BTree_delete(idx, key) == [k \in DOMAIN idx \ {key} |-> idx[k]]

BTree_has(idx, key) == key \in DOMAIN idx

(***************************************************************************)
(* The state.                                                              *)
(***************************************************************************)
VARIABLES
    disk,         \* the directory: segment id -> the records of that file
    opened,       \* an Engine exists (Engine::open returned, not yet closed)
    active_file,  \* Engine.active_file: [file_id, write_off]
    older_files,  \* Engine.older_files: the ids of the map's entries
    file_ids,     \* Engine.file_ids: the ids found at open, ascending
    index,        \* Engine.index
    seq_no,       \* Engine.seq_no
    wb,           \* the write batch: [exists, pending_writes, max_batch_num]
    ret,          \* the last call: [op, key, res]
    \* history variables, read by the properties only
    lastPut,      \* key -> value written by the last write on it by this engine
    fresh,        \* this engine, or the engine of the last clean close, was
                  \* opened on a directory without files
    afterFresh,   \* this engine was opened after the clean close of an
                  \* engine that was opened on a directory without files
    tomb,         \* keys whose last point write is a delete that returned ok
    committed,    \* key -> its record in the last batch committed on it,
                  \* while no point write followed
    closeIndex,   \* the index at the last clean close, until the next open
    \* the threads that share the engine
    threads,      \* thread -> [pc, key, pos, pending, ord, i, seq, positions]:
                  \* where the thread is in its call, and the call's locals
    batch_commit_lock,  \* Engine.batch_commit_lock: its holder, or NoThread
    \* followed by the specifications of their own sections only
    cursor,       \* a BTreeIterator: [exists, items, curr_index, options],
                  \* with the index it was made of (captured), what it
                  \* returned since it was made, rewound or sought
                  \* (yielded), and the key of that seek (sought)
    options,      \* [sync_write, sync_writes]: Options.sync_write of the
                  \* engine, WriteBatchOptions.sync_writes of the batch
    stable,       \* segment id -> how many of its records are flushed
    locks         \* [prog, held, parked]: for each thread the lock
                  \* operations its call has still to do, the locks that
                  \* are held, and for each lock the thread parked first
                  \* in its queue

vars == <<disk, opened, active_file, older_files, file_ids, index, seq_no, wb,
          ret, lastPut, fresh, afterFresh, tomb, committed, closeIndex,
          threads, batch_commit_lock, cursor, options, stable, locks>>

engineVars == <<opened, active_file, older_files, file_ids, index, seq_no>>
ghostVars == <<lastPut, fresh, afterFresh, tomb, committed, closeIndex>>
concVars == <<threads, batch_commit_lock>>
auxVars == <<cursor, options, stable, locks>>

Ok(v) == [err |-> "ok", value |-> v]
Err(e) == [err |-> e, value |-> <<>>]
Ret(op, key, res) == [op |-> op, key |-> key, res |-> res]

EmptyMap == [k \in {} |-> <<>>]
MapPut(m, k, v) == [x \in DOMAIN m \cup {k} |-> IF x = k THEN v ELSE m[x]]
MapDel(m, k) == [x \in DOMAIN m \ {k} |-> m[x]]

\* DataFile::new: a handle on file file_id with write_off 0.
DataFile_new(fid) == [file_id |-> fid, write_off |-> 0]

\* FileIO::new opens with create(true): the file exists afterwards.
new_io_manager(d, fid) ==
    IF fid \in DOMAIN d THEN d
    ELSE [x \in DOMAIN d \cup {fid} |-> IF x = fid THEN <<>> ELSE d[x]]

NoBatch == [exists |-> FALSE, pending_writes |-> EmptyMap, max_batch_num |-> 0]
NoCloseIndex == [valid |-> FALSE, index |-> EmptyIndex]

\* The threads, and a thread that is in no call of the engine.
Threads == {1, 2}
NoThread == 0
Idle == [pc |-> "idle", key |-> EmptyKey, pos |-> LogRecordPos(0, 0),
         pending |-> EmptyMap, ord |-> <<>>, i |-> 0, seq |-> 0,
         positions |-> EmptyIndex]

\* No cursor, the default options (options.rs: sync_write false, sync_writes
\* true) and the locks when no thread is in a call.
NoCursor ==
    [exists |-> FALSE, items |-> <<>>, curr_index |-> 0,
     options |-> [prefix |-> <<>>, reverse |-> FALSE],
     captured |-> EmptyIndex, yielded |-> <<>>,
     sought |-> [valid |-> FALSE, key |-> <<>>]]
DefaultOptions == [sync_write |-> FALSE, sync_writes |-> TRUE]
LockThreads == {1, 2, 3}
LockNames ==
    {"active_file", "older_files", "tree", "batch_commit_lock",
     "pending_writes_1", "pending_writes_2"}
NoLocks ==
    [prog |-> [t \in LockThreads |-> <<>>], held |-> {},
     parked |-> [l \in LockNames |-> 0]]

RECURSIVE SumLen(_, _)
SumLen(d, S) ==
    IF S = {} THEN 0
    ELSE LET x == CHOOSE y \in S : TRUE IN Len(d[x]) + SumLen(d, S \ {x})

\* Number of records in the directory.
TotalRecords == SumLen(disk, DOMAIN disk)

\* A variant of append_log_record whose locator holds the write offset read
\* after the append.
append_log_record_OffsetAfter(st, record) ==
    LET record_len == Len(encode(record))
        rotate == st.active_file.write_off + record_len > DataFileSize
        current_fid == st.active_file.file_id
        older == IF rotate THEN st.older_files \cup {current_fid}
                 ELSE st.older_files
        active0 == IF rotate THEN DataFile_new(current_fid + 1)
                   ELSE st.active_file
        d0 == IF rotate THEN new_io_manager(st.disk, current_fid + 1)
              ELSE st.disk
        d1 == [d0 EXCEPT ![active0.file_id] = Append(@, record)]
        active1 == [active0 EXCEPT !.write_off = @ + record_len]
    IN [disk |-> d1,
        active_file |-> active1,
        older_files |-> older,
        pos |-> LogRecordPos(active0.file_id, active1.write_off)]

\* A variant of append_log_record whose rotation does not enter the file it
\* leaves into older_files.
append_log_record_NoOlder(st, record) ==
    LET record_len == Len(encode(record))
        rotate == st.active_file.write_off + record_len > DataFileSize
        current_fid == st.active_file.file_id
        active0 == IF rotate THEN DataFile_new(current_fid + 1)
                   ELSE st.active_file
        d0 == IF rotate THEN new_io_manager(st.disk, current_fid + 1)
              ELSE st.disk
        write_off == active0.write_off
        d1 == [d0 EXCEPT ![active0.file_id] = Append(@, record)]
    IN [disk |-> d1,
        active_file |-> [active0 EXCEPT !.write_off = @ + record_len],
        older_files |-> st.older_files,
        pos |-> LogRecordPos(active0.file_id, write_off)]

(***************************************************************************)
(* db.rs: Engine::append_log_record, on st = [disk, active_file,           *)
(* older_files]; returns the new st with the locator in pos.               *)
(***************************************************************************)
append_log_record(st, record) ==
    LET record_len == Len(encode(record))
        rotate == st.active_file.write_off + record_len > DataFileSize
        current_fid == st.active_file.file_id
        older == IF rotate THEN st.older_files \cup {current_fid}
                 ELSE st.older_files
        active0 == IF rotate THEN DataFile_new(current_fid + 1)
                   ELSE st.active_file
        d0 == IF rotate THEN new_io_manager(st.disk, current_fid + 1)
              ELSE st.disk
        write_off == active0.write_off
        d1 == [d0 EXCEPT ![active0.file_id] = Append(@, record)]
    IN [disk |-> d1,
        active_file |-> [active0 EXCEPT !.write_off = @ + record_len],
        older_files |-> older,
        pos |-> LogRecordPos(active0.file_id, write_off)]

EngineSt == [disk |-> disk, active_file |-> active_file,
             older_files |-> older_files]

(***************************************************************************)
(* db.rs: Engine::get_value_by_position.                                   *)
(***************************************************************************)
get_value_by_position(d, active, older, pos) ==
    IF active.file_id # pos.file_id /\ pos.file_id \notin older
    THEN Err("FailedToOpenDataFile")
    ELSE LET r == read_log_record(d[pos.file_id], pos.offset)
         IN IF r.res # "ok" THEN Err(r.res)
            ELSE IF r.record.rec_type = DELETED THEN Err("KeyNotFound")
            ELSE Ok(r.record.value)

\* Engine::get on the engine [index idx, active file active, older files
\* older] and the directory d.
Engine_get(d, active, older, idx, key) ==
    IF key = EmptyKey THEN Err("KeyIsEmpty")
    ELSE IF ~BTree_has(idx, key) THEN Err("KeyNotFound")
    ELSE get_value_by_position(d, active, older, idx[key])

\* Engine::get on the engine of the state.
get(key) == Engine_get(disk, active_file, older_files, index, key)

(***************************************************************************)
(* db.rs: replay.  Engine::update_index, then the loop body and the loops  *)
(* of Engine::load_index_from_data_file.  The replay state is              *)
(* [index, current_seq_no, transaction_records, offset, write_off, err].   *)
(***************************************************************************)
\* A variant of update_index that puts the key of every record that is not
\* DELETED.
update_index_PutUnlessDeleted(idx, key, rec_type, pos) ==
    IF rec_type = DELETED THEN BTree_delete(idx, key)
    ELSE BTree_put(idx, key, pos)

\* A variant of update_index that leaves the key of a DELETED record in the
\* index.
update_index_KeepDeleted(idx, key, rec_type, pos) ==
    IF rec_type = NORMAL THEN BTree_put(idx, key, pos) ELSE idx

update_index(idx, key, rec_type, pos) ==
    IF rec_type = NORMAL THEN BTree_put(idx, key, pos)
    ELSE IF rec_type = DELETED THEN BTree_delete(idx, key)
    ELSE idx

\* Apply the buffered records of one transaction, in buffer order.
RECURSIVE ApplyTxn(_, _)
ApplyTxn(idx, records) ==
    IF records = <<>> THEN idx
    ELSE ApplyTxn(update_index(idx, Head(records).record.key,
                               Head(records).record.rec_type,
                               Head(records).pos),
                  Tail(records))

Max(a, b) == IF a >= b THEN a ELSE b

\* A variant of ReplayRecord that looks at the sequence number of the
\* non-transactional records only.
ReplayRecord_SeqOfPoint(st, log_record, log_record_pos) ==
    LET parsed == parse_log_record_key(log_record.key)
        real_key == parsed.real_key
        seq == parsed.seq_no
        txns == st.transaction_records
    IN IF seq = NON_TRANSACTION_SEQ_NO
       THEN [st EXCEPT !.index = update_index(st.index, real_key,
                                      log_record.rec_type, log_record_pos)]
       ELSE IF log_record.rec_type = TXNFINISH
       THEN st
       ELSE LET old == IF seq \in DOMAIN txns THEN txns[seq] ELSE <<>>
                rec == [record |-> [log_record EXCEPT !.key = real_key],
                        pos |-> log_record_pos]
            IN [st EXCEPT !.transaction_records =
                    [s \in DOMAIN txns \cup {seq} |->
                        IF s = seq THEN Append(old, rec) ELSE txns[s]]]

\* A variant of ReplayRecord that applies a transaction's record to the
\* index when it reads it.
ReplayRecord_Eager(st, log_record, log_record_pos) ==
    LET parsed == parse_log_record_key(log_record.key)
    IN [st EXCEPT !.index = update_index(st.index, parsed.real_key,
                                         log_record.rec_type, log_record_pos),
                  !.current_seq_no = Max(parsed.seq_no, st.current_seq_no)]

\* A variant of ReplayRecord that applies a record without sequence number
\* only while no transaction is buffered.
ReplayRecord_TxnHoldsPoint(st, log_record, log_record_pos) ==
    LET parsed == parse_log_record_key(log_record.key)
        txns == st.transaction_records
        old == IF parsed.seq_no \in DOMAIN txns THEN txns[parsed.seq_no] ELSE <<>>
        rec == [record |-> [log_record EXCEPT !.key = parsed.real_key],
                pos |-> log_record_pos]
        st1 ==
          IF parsed.seq_no = NON_TRANSACTION_SEQ_NO
          THEN IF DOMAIN txns = {}
               THEN [st EXCEPT !.index = update_index(st.index, parsed.real_key,
                                         log_record.rec_type, log_record_pos)]
               ELSE st
          ELSE IF log_record.rec_type = TXNFINISH THEN st
          ELSE [st EXCEPT !.transaction_records =
                       [s \in DOMAIN txns \cup {parsed.seq_no} |->
                           IF s = parsed.seq_no THEN Append(old, rec)
                           ELSE txns[s]]]
    IN [st1 EXCEPT !.current_seq_no = Max(parsed.seq_no, st.current_seq_no)]

\* One iteration of the inner loop, for the record read at log_record_pos.
ReplayRecord(st, log_record, log_record_pos) ==
    LET parsed == parse_log_record_key(log_record.key)
        real_key == parsed.real_key
        seq == parsed.seq_no
        txns == st.transaction_records
        st1 ==
          IF seq = NON_TRANSACTION_SEQ_NO
          THEN [st EXCEPT !.index = update_index(st.index, real_key,
                                         log_record.rec_type, log_record_pos)]
          ELSE IF log_record.rec_type = TXNFINISH
          THEN \* update_index with a TXNFINISH record
               [st EXCEPT !.index = update_index(st.index, real_key,
                                         log_record.rec_type, log_record_pos)]
          ELSE IF log_record.rec_type = TXNFINISH
          THEN [st EXCEPT !.index = ApplyTxn(st.index, txns[seq]),
                          !.transaction_records =
                              [s \in DOMAIN txns \ {seq} |-> txns[s]]]
          ELSE LET old == IF seq \in DOMAIN txns THEN txns[seq] ELSE <<>>
                   rec == [record |-> [log_record EXCEPT !.key = real_key],
                           pos |-> log_record_pos]
               IN [st EXCEPT !.transaction_records =
                       [s \in DOMAIN txns \cup {seq} |->
                           IF s = seq THEN Append(old, rec) ELSE txns[s]]]
    IN [st1 EXCEPT !.current_seq_no = Max(seq, st.current_seq_no)]

\* A variant of ReplayFile that ends the replay of the file at a record whose
\* checksum fails, as at the end of the file.
RECURSIVE ReplayFile_CrcEndsFile(_, _, _, _)
ReplayFile_CrcEndsFile(f, file_id, offset, st) ==
    LET r == read_log_record(f, offset)
    IN IF r.res \in {"ReadDataFileEOF", "InvalidLogRecordCrc"}
       THEN [st EXCEPT !.offset = offset]
       ELSE IF r.res # "ok" THEN [st EXCEPT !.err = r.res]
       ELSE ReplayFile_CrcEndsFile(f, file_id, offset + r.size,
                                   ReplayRecord(st, r.record,
                                                LogRecordPos(file_id, offset)))

\* The inner loop over one file, from offset on.
RECURSIVE ReplayFile(_, _, _, _)
ReplayFile(f, file_id, offset, st) ==
    LET r == read_log_record(f, offset)
    IN IF r.res = "ReadDataFileEOF" THEN [st EXCEPT !.offset = offset]
       ELSE IF r.res # "ok" THEN [st EXCEPT !.err = r.res]
       ELSE ReplayFile(f, file_id, offset + r.size,
                       ReplayRecord(st, r.record,
                                    LogRecordPos(file_id, offset)))

\* The outer loop: i is the 0-based position in ids, as in the code.
RECURSIVE ReplayFiles(_, _, _, _)
ReplayFiles(d, ids, i, st) ==
    IF i >= Len(ids) THEN st
    ELSE LET file_id == ids[i + 1]
             s1 == ReplayFile(d[file_id], file_id, 0, st)
             s2 == IF i = Len(ids)
                   THEN [s1 EXCEPT !.write_off = s1.offset]
                   ELSE s1
         IN IF s1.err # "none" THEN s1 ELSE ReplayFiles(d, ids, i + 1, s2)

ReplayInit ==
    [index |-> EmptyIndex, current_seq_no |-> NON_TRANSACTION_SEQ_NO,
     transaction_records |-> [s \in {} |-> <<>>], offset |-> 0,
     write_off |-> 0, err |-> "none"]

load_index_from_data_file(d, ids) ==
    IF ids = <<>> THEN ReplayInit ELSE ReplayFiles(d, ids, 0, ReplayInit)

\* load_data_file: the ids of the directory's files, ascending.
RECURSIVE SortedIds(_)
SortedIds(S) ==
    IF S = {} THEN <<>>
    ELSE LET m == CHOOSE x \in S : \A y \in S : x <= y
         IN <<m>> \o SortedIds(S \ {m})

load_data_file(d) == SortedIds(DOMAIN d)

(***************************************************************************)
(* Init: an empty directory and no engine.                                 *)
(***************************************************************************)
Init ==
    /\ disk = [x \in {} |-> <<>>]
    /\ opened = FALSE
    /\ active_file = DataFile_new(INITAL_DILE_ID)
    /\ older_files = {}
    /\ file_ids = <<>>
    /\ index = EmptyIndex
    /\ seq_no = 1
    /\ wb = NoBatch
    /\ ret = Ret("init", EmptyKey, Ok(<<>>))
    /\ lastPut = EmptyMap
    /\ fresh = FALSE
    /\ afterFresh = FALSE
    /\ tomb = {}
    /\ committed = EmptyMap
    /\ closeIndex = NoCloseIndex
    /\ threads = [t \in Threads |-> Idle]
    /\ batch_commit_lock = NoThread
    /\ cursor = NoCursor
    /\ options = DefaultOptions
    /\ stable = [x \in {} |-> 0]
    /\ locks = NoLocks

\* The process ends: the Engine and the batch are gone, the files stay.
EngineGone ==
    /\ opened' = FALSE
    /\ active_file' = DataFile_new(INITAL_DILE_ID)
    /\ older_files' = {}
    /\ file_ids' = <<>>
    /\ index' = EmptyIndex
    /\ seq_no' = 1
    /\ wb' = NoBatch
    /\ lastPut' = EmptyMap
    /\ afterFresh' = FALSE
    /\ threads' = [t \in Threads |-> Idle]
    /\ batch_commit_lock' = NoThread
    /\ UNCHANGED auxVars

(***************************************************************************)
(* db.rs: Engine::open.  OpenEngine is the engine open builds on           *)
(* directory d.                                                            *)
(***************************************************************************)
\* A variant of OpenEngine whose sequence counter is the largest sequence
\* number replay found.
OpenEngine_NoIncrement(d) ==
    LET ids == load_data_file(d)
        n == Len(ids)
        active_id == IF n > 0 THEN ids[n] ELSE INITAL_DILE_ID
        d1 == new_io_manager(d, active_id)
        loaded == load_index_from_data_file(d1, ids)
    IN [err |-> loaded.err,
        disk |-> d1,
        active_file |-> [file_id |-> active_id, write_off |-> loaded.write_off],
        older_files |-> {ids[i] : i \in 1..(IF n > 1 THEN n - 1 ELSE 0)},
        file_ids |-> ids,
        index |-> loaded.index,
        seq_no |-> loaded.current_seq_no]

OpenEngine(d) ==
    LET ids == load_data_file(d)
        n == Len(ids)
        active_id == IF n > 0 THEN ids[n] ELSE INITAL_DILE_ID
        d1 == new_io_manager(d, active_id)
        loaded == load_index_from_data_file(d1, ids)
    IN [err |-> loaded.err,
        disk |-> d1,
        active_file |-> [file_id |-> active_id, write_off |-> loaded.write_off],
        older_files |-> {ids[i] : i \in 1..(IF n > 1 THEN n - 1 ELSE 0)},
        file_ids |-> ids,
        index |-> loaded.index,
        seq_no |-> loaded.current_seq_no + 1]

Open ==
    /\ ~opened
    /\ UNCHANGED <<concVars, auxVars>>
    /\ LET e == OpenEngine(disk)
       IN IF e.err = "none"
          THEN /\ disk' = e.disk
               /\ opened' = TRUE
               /\ active_file' = e.active_file
               /\ older_files' = e.older_files
               /\ file_ids' = e.file_ids
               /\ index' = e.index
               /\ seq_no' = e.seq_no
               /\ ret' = Ret("open", EmptyKey, Ok(<<>>))
               /\ fresh' = (DOMAIN disk = {})
               /\ afterFresh' = (closeIndex.valid /\ fresh)
          ELSE /\ ret' = Ret("open", EmptyKey, Err(e.err))
               /\ UNCHANGED <<disk, engineVars, fresh, afterFresh>>
    /\ wb' = NoBatch
    /\ lastPut' = EmptyMap
    /\ closeIndex' = NoCloseIndex
    /\ UNCHANGED <<tomb, committed>>

\* Engine::close (a sync of the active file), after which the engine is
\* dropped.
Close ==
    /\ opened
    /\ EngineGone
    /\ closeIndex' = [valid |-> TRUE, index |-> index]
    /\ ret' = Ret("close", EmptyKey, Ok(<<>>))
    /\ UNCHANGED <<disk, fresh, tomb, committed>>

(***************************************************************************)
(* db.rs: Engine::put, Engine::get, Engine::delete.                        *)
(***************************************************************************)
EnginePut(key, value) ==
    /\ opened
    /\ UNCHANGED <<concVars, auxVars>>
    /\ IF key = EmptyKey
       THEN /\ ret' = Ret("put", key, Err("KeyIsEmpty"))
            /\ UNCHANGED <<disk, engineVars, wb, ghostVars>>
       ELSE /\ LET record == LogRecord(
                       log_record_key_with_seq(key, NON_TRANSACTION_SEQ_NO),
                       value, NORMAL)
                   a == append_log_record(EngineSt, record)
               IN /\ disk' = a.disk
                  /\ active_file' = a.active_file
                  /\ older_files' = a.older_files
                  /\ index' = BTree_put(index, key, a.pos)
            /\ ret' = Ret("put", key, Ok(<<>>))
            /\ lastPut' = MapPut(lastPut, key, value)
            /\ tomb' = tomb \ {key}
            /\ committed' = MapDel(committed, key)
            /\ UNCHANGED <<opened, file_ids, seq_no, wb, fresh, afterFresh,
                          closeIndex>>

EngineGet(key) ==
    /\ opened
    /\ UNCHANGED <<concVars, auxVars>>
    /\ ret' = Ret("get", key, get(key))
    /\ UNCHANGED <<disk, engineVars, wb, ghostVars>>

\* A variant of EngineDelete that appends a DELETED record whether or not
\* the key is in the index.
EngineDelete_AlwaysAppend(key) ==
    /\ opened
    /\ UNCHANGED <<concVars, auxVars>>
    /\ IF key = EmptyKey
       THEN /\ ret' = Ret("delete", key, Err("KeyIsEmpty"))
            /\ UNCHANGED <<disk, engineVars, wb, ghostVars>>
       ELSE /\ LET record == LogRecord(
                       log_record_key_with_seq(key, NON_TRANSACTION_SEQ_NO),
                       <<>>, DELETED)
                   a == append_log_record(EngineSt, record)
               IN /\ disk' = a.disk
                  /\ active_file' = a.active_file
                  /\ older_files' = a.older_files
                  /\ index' = BTree_delete(index, key)
            /\ ret' = Ret("delete", key, Ok(<<>>))
            /\ lastPut' = MapDel(lastPut, key)
            /\ tomb' = tomb \cup {key}
            /\ committed' = MapDel(committed, key)
            /\ UNCHANGED <<opened, file_ids, seq_no, wb, fresh, afterFresh,
                          closeIndex>>

EngineDelete(key) ==
    /\ opened
    /\ UNCHANGED <<concVars, auxVars>>
    /\ IF key = EmptyKey
       THEN /\ ret' = Ret("delete", key, Err("KeyIsEmpty"))
            /\ UNCHANGED <<disk, engineVars, wb, ghostVars>>
       ELSE /\ IF ~BTree_has(index, key)
               THEN UNCHANGED <<disk, active_file, older_files, index>>
               ELSE LET record == LogRecord(
                            log_record_key_with_seq(key,
                                                    NON_TRANSACTION_SEQ_NO),
                            <<>>, DELETED)
                        a == append_log_record(EngineSt, record)
                    IN /\ disk' = a.disk
                       /\ active_file' = a.active_file
                       /\ older_files' = a.older_files
                       /\ index' = BTree_delete(index, key)
            /\ ret' = Ret("delete", key, Ok(<<>>))
            /\ lastPut' = MapDel(lastPut, key)
            /\ tomb' = tomb \cup {key}
            /\ committed' = MapDel(committed, key)
            /\ UNCHANGED <<opened, file_ids, seq_no, wb, fresh, afterFresh,
                          closeIndex>>

(***************************************************************************)
(* batch.rs: Engine::new_write_batch, WriteBatch::put, WriteBatch::delete. *)
(***************************************************************************)
NewWriteBatch(max) ==
    /\ opened
    /\ UNCHANGED <<concVars, auxVars>>
    /\ wb' = [exists |-> TRUE, pending_writes |-> EmptyMap,
              max_batch_num |-> max]
    /\ ret' = Ret("new_write_batch", EmptyKey, Ok(<<>>))
    /\ UNCHANGED <<disk, engineVars, ghostVars>>

\* A variant of WriteBatchPut that stages the record without looking at the
\* key.
WriteBatchPut_NoKeyCheck(key, value) ==
    /\ opened
    /\ UNCHANGED <<concVars, auxVars>>
    /\ wb.exists
    /\ wb' = [wb EXCEPT !.pending_writes =
                   MapPut(@, key, LogRecord(key, value, NORMAL))]
    /\ ret' = Ret("wb_put", key, Ok(<<>>))
    /\ UNCHANGED <<disk, engineVars, ghostVars>>

WriteBatchPut(key, value) ==
    /\ opened
    /\ UNCHANGED <<concVars, auxVars>>
    /\ wb.exists
    /\ IF key = EmptyKey
       THEN /\ ret' = Ret("wb_put", key, Err("KeyIsEmpty"))
            /\ wb' = wb
       ELSE /\ wb' = [wb EXCEPT !.pending_writes =
                          MapPut(@, key, LogRecord(key, value, NORMAL))]
            /\ ret' = Ret("wb_put", key, Ok(<<>>))
    /\ UNCHANGED <<disk, engineVars, ghostVars>>

WriteBatchDelete(key) ==
    /\ opened
    /\ UNCHANGED <<concVars, auxVars>>
    /\ wb.exists
    /\ IF key = EmptyKey
       THEN /\ ret' = Ret("wb_delete", key, Err("KeyIsEmpty"))
            /\ wb' = wb
       ELSE /\ LET p0 == wb.pending_writes
                   p1 == IF ~BTree_has(index, key) /\ key \in DOMAIN p0
                         THEN MapDel(p0, key)
                         ELSE p0
               IN wb' = [wb EXCEPT !.pending_writes =
                             MapPut(p1, key, LogRecord(key, <<>>, DELETED))]
            /\ ret' = Ret("wb_delete", key, Ok(<<>>))
    /\ UNCHANGED <<disk, engineVars, ghostVars>>

(***************************************************************************)
(* batch.rs: WriteBatch::commit.  The staged records are a HashMap, whose  *)
(* iteration order is any order ord of its keys.                           *)
(***************************************************************************)
Orders(S) ==
    {o \in [1..Cardinality(S) -> S] :
        \A i, j \in 1..Cardinality(S) : i # j => o[i] # o[j]}

\* The first loop: append the staged records ord[1], ord[2], ... under seq.
\* st = [disk, active_file, older_files, positions].
RECURSIVE AppendStaged(_, _, _, _)
AppendStaged(st, pending, ord, seq) ==
    IF ord = <<>> THEN st
    ELSE LET item == pending[Head(ord)]
             record == LogRecord(log_record_key_with_seq(item.key, seq),
                                 item.value, item.rec_type)
             a == append_log_record(st, record)
         IN AppendStaged([disk |-> a.disk, active_file |-> a.active_file,
                          older_files |-> a.older_files,
                          positions |-> MapPut(st.positions, item.key, a.pos)],
                         pending, Tail(ord), seq)

\* The record that ends transaction seq.
finish_record(seq) ==
    LogRecord(log_record_key_with_seq(TXN_FINISH, seq), <<>>, TXNFINISH)

\* The second loop: the index updates.
RECURSIVE InstallStaged(_, _, _, _)
InstallStaged(idx, pending, ord, positions) ==
    IF ord = <<>> THEN idx
    ELSE LET item == pending[Head(ord)]
             idx1 == IF item.rec_type = NORMAL
                     THEN BTree_put(idx, item.key, positions[item.key])
                     ELSE IF item.rec_type = DELETED
                     THEN BTree_delete(idx, item.key)
                     ELSE idx
         IN InstallStaged(idx1, pending, Tail(ord), positions)

StagedSt == [disk |-> disk, active_file |-> active_file,
             older_files |-> older_files, positions |-> EmptyIndex]

\* A variant of CommitOrd that takes two sequence numbers.
CommitOrd_TwoSeq(ord) ==
    /\ opened
    /\ UNCHANGED <<concVars, auxVars>>
    /\ wb.exists
    /\ LET pending == wb.pending_writes
           n == Cardinality(DOMAIN pending)
       IN IF n = 0
          THEN /\ ret' = Ret("commit", EmptyKey, Ok(<<>>))
               /\ UNCHANGED <<disk, engineVars, wb, ghostVars>>
          ELSE IF n > wb.max_batch_num
          THEN /\ ret' = Ret("commit", EmptyKey, Err("ExceddMaxBatchNum"))
               /\ UNCHANGED <<disk, engineVars, wb, ghostVars>>
          ELSE /\ LET s1 == AppendStaged(StagedSt, pending, ord, seq_no)
                      s2 == append_log_record(s1, finish_record(seq_no))
                  IN /\ disk' = s2.disk
                     /\ active_file' = s2.active_file
                     /\ older_files' = s2.older_files
                     /\ index' = InstallStaged(index, pending, ord,
                                               s1.positions)
                     /\ committed' =
                          [k \in DOMAIN committed \cup DOMAIN pending |->
                             IF k \in DOMAIN pending
                             THEN LogRecord(
                                      log_record_key_with_seq(k, seq_no),
                                      pending[k].value, pending[k].rec_type)
                             ELSE committed[k]]
               /\ seq_no' = seq_no + 2
               /\ wb' = [wb EXCEPT !.pending_writes = EmptyMap]
               /\ ret' = Ret("commit", EmptyKey, Ok(<<>>))
               /\ lastPut' =
                    [k \in (DOMAIN lastPut \cup DOMAIN pending)
                           \ {x \in DOMAIN pending :
                                pending[x].rec_type = DELETED} |->
                       IF k \in DOMAIN pending THEN pending[k].value
                       ELSE lastPut[k]]
               /\ tomb' = tomb \ {k \in DOMAIN pending :
                                    pending[k].rec_type = NORMAL}
               /\ UNCHANGED <<opened, file_ids, fresh, afterFresh, closeIndex>>

\* A variant of CommitOrd that does not look at max_batch_num.
CommitOrd_NoLimit(ord) ==
    /\ opened
    /\ UNCHANGED <<concVars, auxVars>>
    /\ wb.exists
    /\ LET pending == wb.pending_writes
           n == Cardinality(DOMAIN pending)
       IN IF n = 0
          THEN /\ ret' = Ret("commit", EmptyKey, Ok(<<>>))
               /\ UNCHANGED <<disk, engineVars, wb, ghostVars>>
          ELSE /\ LET s1 == AppendStaged(StagedSt, pending, ord, seq_no)
                      s2 == append_log_record(s1, finish_record(seq_no))
                  IN /\ disk' = s2.disk
                     /\ active_file' = s2.active_file
                     /\ older_files' = s2.older_files
                     /\ index' = InstallStaged(index, pending, ord,
                                               s1.positions)
                     /\ committed' =
                          [k \in DOMAIN committed \cup DOMAIN pending |->
                             IF k \in DOMAIN pending
                             THEN LogRecord(
                                      log_record_key_with_seq(k, seq_no),
                                      pending[k].value, pending[k].rec_type)
                             ELSE committed[k]]
               /\ seq_no' = seq_no + 1
               /\ wb' = [wb EXCEPT !.pending_writes = EmptyMap]
               /\ ret' = Ret("commit", EmptyKey, Ok(<<>>))
               /\ lastPut' =
                    [k \in (DOMAIN lastPut \cup DOMAIN pending)
                           \ {x \in DOMAIN pending :
                                pending[x].rec_type = DELETED} |->
                       IF k \in DOMAIN pending THEN pending[k].value
                       ELSE lastPut[k]]
               /\ tomb' = tomb \ {k \in DOMAIN pending :
                                    pending[k].rec_type = NORMAL}
               /\ UNCHANGED <<opened, file_ids, fresh, afterFresh, closeIndex>>

CommitOrd(ord) ==
    /\ opened
    /\ UNCHANGED <<concVars, auxVars>>
    /\ wb.exists
    /\ LET pending == wb.pending_writes
           n == Cardinality(DOMAIN pending)
       IN IF n = 0
          THEN /\ ret' = Ret("commit", EmptyKey, Ok(<<>>))
               /\ UNCHANGED <<disk, engineVars, wb, ghostVars>>
          ELSE IF n > wb.max_batch_num
          THEN /\ ret' = Ret("commit", EmptyKey, Err("ExceddMaxBatchNum"))
               /\ UNCHANGED <<disk, engineVars, wb, ghostVars>>
          ELSE /\ LET s1 == AppendStaged(StagedSt, pending, ord, seq_no)
                      s2 == append_log_record(s1, finish_record(seq_no))
                  IN /\ disk' = s2.disk
                     /\ active_file' = s2.active_file
                     /\ older_files' = s2.older_files
                     /\ index' = InstallStaged(index, pending, ord,
                                               s1.positions)
                     /\ committed' =
                          [k \in DOMAIN committed \cup DOMAIN pending |->
                             IF k \in DOMAIN pending
                             THEN LogRecord(
                                      log_record_key_with_seq(k, seq_no),
                                      pending[k].value, pending[k].rec_type)
                             ELSE committed[k]]
               /\ seq_no' = seq_no + 1
               /\ wb' = [wb EXCEPT !.pending_writes = EmptyMap]
               /\ ret' = Ret("commit", EmptyKey, Ok(<<>>))
               /\ lastPut' =
                    [k \in (DOMAIN lastPut \cup DOMAIN pending)
                           \ {x \in DOMAIN pending :
                                pending[x].rec_type = DELETED} |->
                       IF k \in DOMAIN pending THEN pending[k].value
                       ELSE lastPut[k]]
               /\ tomb' = tomb \ {k \in DOMAIN pending :
                                    pending[k].rec_type = NORMAL}
               /\ UNCHANGED <<opened, file_ids, fresh, afterFresh, closeIndex>>

\* The process stops inside commit, after j of the staged records were
\* appended and before the TXNFINISH record is.
CommitCrashOrd(ord, j) ==
    /\ opened
    /\ wb.exists
    /\ LET pending == wb.pending_writes
           n == Cardinality(DOMAIN pending)
       IN /\ n > 0
          /\ n <= wb.max_batch_num
          /\ j \in 1..n
          /\ disk' = AppendStaged(StagedSt, pending, SubSeq(ord, 1, j),
                                  seq_no).disk
    /\ EngineGone
    /\ closeIndex' = NoCloseIndex
    /\ ret' = Ret("crash", EmptyKey, Ok(<<>>))
    /\ fresh' = FALSE
    /\ UNCHANGED <<tomb, committed>>

(***************************************************************************)
(* The specifications: one thread calls the operations in any order, on    *)
(* keys and values of the given sets.  A call is made only if it leaves at *)
(* most MaxRecords records in the directory.                               *)
(***************************************************************************)
Bounded == TotalRecords' <= MaxRecords
Room(n) == TotalRecords + n <= MaxRecords

Put(K, V) == \E key \in K, value \in V : EnginePut(key, value) /\ Bounded
Get(K) == \E key \in K : EngineGet(key)
Delete(K) == \E key \in K : EngineDelete(key) /\ Bounded
NewBatch == \E max \in MaxBatchNums : NewWriteBatch(max)
BatchPut(K, V) == \E key \in K, value \in V : WriteBatchPut(key, value)
BatchDelete(K) == \E key \in K : WriteBatchDelete(key)
Commit ==
    \E ord \in Orders(DOMAIN wb.pending_writes) :
        /\ Len(ord) > wb.max_batch_num \/ Room(Len(ord) + 1)
        /\ CommitOrd(ord)
CommitCrash ==
    \E ord \in Orders(DOMAIN wb.pending_writes) :
        \E j \in 1..Len(ord) : Room(j) /\ CommitCrashOrd(ord, j)

\* The engine with its write batch: point writes of one value, batch writes
\* of another.  (A get changes nothing but ret; its result in a state is
\* get(key), which the properties read.)
Next ==
    \/ Open
    \/ Close
    \/ Put(UserKeys, {Val(1, 40)})
    \/ Delete(UserKeys)
    \/ NewBatch
    \/ BatchPut(UserKeys, {Val(2, 45)})
    \/ BatchDelete(UserKeys)
    \/ Commit
    \/ CommitCrash

Spec == Init /\ [][Next]_vars

\* The point operations alone, the empty key included.
NextPoint ==
    \/ Open
    \/ Close
    \/ Put(Keys, Values)
    \/ Get(Keys)
    \/ Delete(Keys)

SpecPoint == Init /\ [][NextPoint]_vars

\* Every operation that takes a key, on the empty key and one other.
OneKey == {EmptyKey, <<97>>}

NextKeys ==
    \/ Open
    \/ Close
    \/ Put(OneKey, {Val(1, 40)})
    \/ Get(OneKey)
    \/ Delete(OneKey)
    \/ NewBatch
    \/ BatchPut(OneKey, {Val(2, 45)})
    \/ BatchDelete(OneKey)
    \/ Commit
    \/ CommitCrash

SpecKeys == Init /\ [][NextKeys]_vars

\* The sequence numbers: every write on one key, in a directory of at most
\* MaxTxnRecords records.
TxnKey == {<<97>>}
TxnRoom(n) == TotalRecords + n <= MaxTxnRecords

PutTxn == EnginePut(<<97>>, Val(1, 40)) /\ TxnRoom(1)
DeleteTxn == EngineDelete(<<97>>) /\ TxnRoom(1)
CommitTxn ==
    \E ord \in Orders(DOMAIN wb.pending_writes) :
        TxnRoom(Len(ord) + 1) /\ CommitOrd(ord)
CommitCrashTxn ==
    \E ord \in Orders(DOMAIN wb.pending_writes) :
        \E j \in 1..Len(ord) : TxnRoom(j) /\ CommitCrashOrd(ord, j)

NextTxn ==
    \/ Open
    \/ Close
    \/ PutTxn
    \/ DeleteTxn
    \/ NewBatch
    \/ BatchPut(TxnKey, {Val(2, 45)})
    \/ BatchDelete(TxnKey)
    \/ CommitTxn
    \/ CommitCrashTxn

SpecTxn == Init /\ [][NextTxn]_vars

(***************************************************************************)
(* Properties.                                                             *)
(***************************************************************************)
\* The records of the directory, as [file_id, i] places.
Places(d) == UNION {{<<fid, i>> : i \in 1..Len(d[fid])} : fid \in DOMAIN d}

SeqOf(r) == parse_log_record_key(r.key).seq_no
UserKeyOf(r) == parse_log_record_key(r.key).real_key

\* C1 (as claimed): read-your-writes.  After put(k, v) returned ok, a get(k)
\* by the same engine returns v, until a later put or delete on k; the
\* engine may have been opened on a directory that already holds records.
C1_ReadYourWrites ==
    (opened /\ ret.op = "get" /\ ret.key \in DOMAIN lastPut)
        => ret.res = Ok(lastPut[ret.key])

\* C2: on an engine opened on an empty directory, put/get/delete behave as
\* on a plain map: a get returns the value of the latest put on the key that
\* no delete followed, KeyNotFound otherwise; put and delete return ok.
C2_PlainMap ==
    (opened /\ fresh /\ ret.key # EmptyKey) =>
        /\ ret.op = "get" =>
              ret.res = IF ret.key \in DOMAIN lastPut
                        THEN Ok(lastPut[ret.key])
                        ELSE Err("KeyNotFound")
        /\ ret.op \in {"put", "delete"} => ret.res = Ok(<<>>)

\* C2's case: after a rotation, a get of a key that was put and deleted
\* finds nothing while another key is still stored.
C2_Witness ==
    /\ opened /\ fresh
    /\ older_files # {}
    /\ ret.op = "get" /\ ret.key \in tomb /\ ret.res = Err("KeyNotFound")
    /\ \E p \in Places(disk) :
          /\ disk[p[1]][p[2]].rec_type = DELETED
          /\ UserKeyOf(disk[p[1]][p[2]]) = ret.key
    /\ DOMAIN lastPut # {}

\* C5 (as claimed): after open, the active segment's write offset is the
\* first byte past its last record.
C5_WriteOffAfterOpen ==
    (opened /\ ret.op = "open")
        => active_file.write_off = FileLen(disk[active_file.file_id])

\* C6 (as claimed): in every state the active segment's write offset is the
\* length of its file, and the locator a put returned is where its record
\* is stored.
C6_WriteOffIsFileLen ==
    opened =>
        /\ active_file.write_off = FileLen(disk[active_file.file_id])
        /\ (ret.op = "put" /\ ret.res = Ok(<<>>)) =>
              LET pos == index[ret.key]
                  r == read_log_record(disk[pos.file_id], pos.offset)
              IN /\ pos.file_id = active_file.file_id
                 /\ r.res = "ok"
                 /\ r.record = LogRecord(
                        log_record_key_with_seq(ret.key,
                                                NON_TRANSACTION_SEQ_NO),
                        lastPut[ret.key], NORMAL)

\* C9: a delete of a key that is not in the index returns ok, appends no
\* record and leaves the write offset, the segments and the index as they
\* were.
C9_IdempotentDelete ==
    [][\A k \in UserKeys :
          (opened /\ ~BTree_has(index, k)
             /\ ret'.op = "delete" /\ ret'.key = k)
          => /\ ret'.res = Ok(<<>>)
             /\ UNCHANGED <<disk, active_file, older_files, index,
                            file_ids, seq_no>>]_vars

\* C9's case: a delete returned ok on a directory that holds records, none
\* of them a DELETED record of that key.
C9_Witness ==
    /\ opened
    /\ ret.op = "delete" /\ ret.key # EmptyKey /\ ret.res = Ok(<<>>)
    /\ TotalRecords > 0
    /\ \A p \in Places(disk) :
          LET r == disk[p[1]][p[2]]
          IN ~(r.rec_type = DELETED /\ UserKeyOf(r) = ret.key)

\* The sequence numbers whose TXNFINISH record is in the directory.
Finished(d) ==
    {SeqOf(d[p[1]][p[2]]) : p \in {q \in Places(d) :
                                      d[q[1]][q[2]].rec_type = TXNFINISH}}

\* r is a record of a transaction that has no TXNFINISH record in d.
Unfinished(d, r) ==
    /\ SeqOf(r) # NON_TRANSACTION_SEQ_NO
    /\ r.rec_type # TXNFINISH
    /\ SeqOf(r) \notin Finished(d)

\* A record of the size of r that replay reads and does nothing with.
Inert(r) ==
    LogRecord(log_record_key_with_seq(UserKeyOf(r), NON_TRANSACTION_SEQ_NO),
              r.value, TXNFINISH)

\* The directory d with every record of an unfinished transaction made inert.
Scrub(d) ==
    [fid \in DOMAIN d |->
        [i \in 1..Len(d[fid]) |->
            IF Unfinished(d, d[fid][i]) THEN Inert(d[fid][i]) ELSE d[fid][i]]]

\* The record the index holds for key k, as read_log_record returns it.
Stored(k) == read_log_record(disk[index[k].file_id], index[k].offset)

\* C3 (as claimed): after open, every key staged NORMAL by a committed batch
\* is in the index at the locator of its batch record, and every key staged
\* DELETED is absent.
C3_CommittedSurvives ==
    (opened /\ ret.op = "open") =>
        \A k \in DOMAIN committed :
            /\ committed[k].rec_type = NORMAL =>
                  /\ BTree_has(index, k)
                  /\ Stored(k).res = "ok"
                  /\ Stored(k).record = committed[k]
            /\ committed[k].rec_type = DELETED => ~BTree_has(index, k)

\* C4: after open, the records of a transaction without TXNFINISH record
\* have not changed the index: the index is the one replay builds when these
\* records are inert, and no locator of the index points at one of them.
C4_UncommittedDiscarded ==
    (opened /\ ret.op = "open") =>
        /\ index = load_index_from_data_file(Scrub(disk),
                                             load_data_file(disk)).index
        /\ \A k \in DOMAIN index :
              Stored(k).res = "ok" => ~Unfinished(disk, Stored(k).record)

\* C4's case: open has replayed a directory where an unfinished transaction
\* left a NORMAL record of a key that is not in the index and a DELETED
\* record of a key that is.
C4_Witness ==
    /\ opened /\ ret.op = "open"
    /\ \E p, q \in Places(disk) :
          LET r == disk[p[1]][p[2]]
              t == disk[q[1]][q[2]]
          IN /\ Unfinished(disk, r) /\ r.rec_type = NORMAL
             /\ ~BTree_has(index, UserKeyOf(r))
             /\ Unfinished(disk, t) /\ t.rec_type = DELETED
             /\ BTree_has(index, UserKeyOf(t))

\* C7 (as claimed): the index that open builds after a clean close is the
\* index as it was just before the close: the same keys, the same locators.
C7_ReplayEquivalence ==
    [][(closeIndex.valid /\ ret'.op = "open" /\ opened')
          => index' = closeIndex.index]_vars

\* C8 (as claimed): after a delete(k) that returned ok, get(k) returns
\* KeyNotFound until a later put on k, also after close and reopen.
C8_Tombstoning ==
    opened => \A k \in tomb : get(k) = Err("KeyNotFound")

\* C10: put, get and delete of the engine and put and delete of the write
\* batch return KeyIsEmpty on an empty key and change nothing: no record is
\* appended, and the index, the staged records and the sequence number stay.
C10_EmptyKeyRejected ==
    [][(ret'.op \in {"put", "get", "delete", "wb_put", "wb_delete"}
          /\ ret'.key = EmptyKey)
          => /\ ret'.res = Err("KeyIsEmpty")
             /\ UNCHANGED <<disk, engineVars, wb>>]_vars

\* C10's case: the batch's put refused an empty key while records were
\* staged, the index held keys and a batch had been committed.
C10_Witness ==
    /\ ret = Ret("wb_put", EmptyKey, Err("KeyIsEmpty"))
    /\ DOMAIN wb.pending_writes # {}
    /\ DOMAIN index # {}
    /\ seq_no > 1

\* C11 (as claimed): after a step that rotated the active segment, every key
\* this engine has put is returned by get with its latest value.
C11_RotationPreservesReads ==
    [][(opened /\ opened' /\ older_files' # older_files)
          => \A k \in DOMAIN lastPut' :
                Engine_get(disk', active_file', older_files', index', k)
                    = Ok(lastPut'[k])]_vars

\* C12 (as claimed): staging a write changes nothing the engine reads, a
\* key that is only staged is not found, and after a commit that returned
\* ok get returns the staged value of each staged NORMAL key and
\* KeyNotFound for each staged DELETED key.
C12_BatchVisibility ==
    [][/\ ret'.op \in {"wb_put", "wb_delete"}
            => UNCHANGED <<disk, active_file, older_files, index>>
       /\ (ret'.op = "commit" /\ ret'.res = Ok(<<>>))
            => \A k \in DOMAIN wb.pending_writes :
                  LET item == wb.pending_writes[k]
                      got == Engine_get(disk', active_file', older_files',
                                        index', k)
                  IN /\ item.rec_type = NORMAL => got = Ok(item.value)
                     /\ item.rec_type = DELETED => got = Err("KeyNotFound")]_vars

\* The TXNFINISH records of the directory, and the largest sequence number
\* of its records.
FinishPlaces(d) == {p \in Places(d) : d[p[1]][p[2]].rec_type = TXNFINISH}
SeqsOf(d) == {SeqOf(d[p[1]][p[2]]) : p \in Places(d)}
MaxSeq(d) ==
    IF SeqsOf(d) = {} THEN NON_TRANSACTION_SEQ_NO
    ELSE CHOOSE m \in SeqsOf(d) : \A x \in SeqsOf(d) : x <= m

\* C13: an engine opened on an empty directory has the sequence counter 1
\* plus the number of its commits that returned ok on a non-empty batch;
\* each such commit adds one to the counter, a put or a delete leaves it.
C13_OneSeqPerCommit ==
    [][/\ (opened' /\ fresh')
            => seq_no' = 1 + Cardinality(FinishPlaces(disk'))
       /\ (ret'.op = "commit" /\ ret'.res = Ok(<<>>)
             /\ DOMAIN wb.pending_writes # {})
            => seq_no' = seq_no + 1
       /\ ret'.op \in {"put", "delete"} => seq_no' = seq_no]_vars

\* C13's case: the second commit of an engine opened on an empty directory
\* has returned.
C13_Witness ==
    /\ opened /\ fresh
    /\ ret = Ret("commit", EmptyKey, Ok(<<>>))
    /\ Cardinality(FinishPlaces(disk)) = 2
    /\ seq_no = 3

\* C14: the sequence counter of an engine is larger than every sequence
\* number in the log, so that a commit takes a number no record has, and
\* just after open it is the largest sequence number in the log plus 1 (1
\* when the log has no transactional record).
C14_SeqAboveLog ==
    opened =>
        /\ \A s \in SeqsOf(disk) : s < seq_no
        /\ ret.op = "open" => seq_no = MaxSeq(disk) + 1

\* C14's case: open has replayed a log whose largest sequence number is
\* that of a transaction without TXNFINISH record, above a finished one.
C14_Witness ==
    /\ opened /\ ret.op = "open"
    /\ FinishPlaces(disk) # {}
    /\ \E p \in Places(disk) :
          /\ Unfinished(disk, disk[p[1]][p[2]])
          /\ SeqOf(disk[p[1]][p[2]]) = MaxSeq(disk)
    /\ seq_no = 3

\* C15 (as claimed): when two commits on an engine opened on an empty
\* directory precede a clean close, the sequence counter after the reopen
\* is 4.
C15_SeqAfterReopenIs4 ==
    [][(~opened /\ closeIndex.valid /\ fresh
          /\ Cardinality(FinishPlaces(disk)) = 2
          /\ ret'.op = "open" /\ opened')
          => seq_no' = 4]_vars

\* C15 (amended): in that case the sequence counter after the reopen is 3,
\* the largest sequence number in the log plus 1.
C15_SeqAfterReopenIs3 ==
    [][(~opened /\ closeIndex.valid /\ fresh
          /\ Cardinality(FinishPlaces(disk)) = 2
          /\ ret'.op = "open" /\ opened')
          => seq_no' = 3]_vars

\* C15's case: the engine reopened after two commits on an engine opened on
\* an empty directory and a clean close.
C15_Witness ==
    /\ opened /\ afterFresh /\ ret.op = "open"
    /\ Cardinality(FinishPlaces(disk)) = 2
    /\ \A p \in Places(disk) : SeqOf(disk[p[1]][p[2]]) # NON_TRANSACTION_SEQ_NO

\* C20: a commit on a batch of more than max_batch_num staged keys returns
\* ExceddMaxBatchNum and changes nothing: no record is appended, and the
\* sequence counter, the index and the staged records stay.
C20_ExceedMaxBatchNum ==
    [][(opened /\ wb.exists /\ ret'.op = "commit"
          /\ Cardinality(DOMAIN wb.pending_writes) > wb.max_batch_num)
          => /\ ret'.res = Err("ExceddMaxBatchNum")
             /\ UNCHANGED <<disk, engineVars, wb>>]_vars

\* C20's case: commit refused two staged keys on a batch of max_batch_num 1
\* while the index held a key.
C20_Witness ==
    /\ ret = Ret("commit", EmptyKey, Err("ExceddMaxBatchNum"))
    /\ Cardinality(DOMAIN wb.pending_writes) = 2
    /\ wb.max_batch_num = 1
    /\ DOMAIN index # {}

(***************************************************************************)
(* Damaged files.  A file entry is a record the engine appended, or raw     *)
(* bytes [raw |-> bytes]: a record of which one byte was changed on disk    *)
(* while no engine ran, or the first bytes of a record whose append the     *)
(* end of the process cut short.  At most MaxDamaged entries are raw.       *)
(***************************************************************************)
MaxDamaged == 1

RawPlaces(d) == {p \in Places(d) : IsRaw(d[p[1]][p[2]])}

\* One byte of a record takes the next byte value.
FlipByte ==
    /\ ~opened
    /\ UNCHANGED <<concVars, auxVars>>
    /\ Cardinality(RawPlaces(disk)) < MaxDamaged
    /\ \E p \in Places(disk) \ RawPlaces(disk) :
         \E b \in 1..Len(EntryBytes(disk[p[1]][p[2]])) :
            disk' = [disk EXCEPT ![p[1]][p[2]] =
                        [raw |-> [EntryBytes(@) EXCEPT ![b] = (@ + 1) % 256]]]
    /\ ret' = Ret("flip", EmptyKey, Ok(<<>>))
    /\ UNCHANGED <<engineVars, wb, ghostVars>>

\* Engine::put whose write of the encoded record reaches the file with its
\* first n bytes only, after which the process is gone.
TornPut(key, value, n) ==
    /\ opened
    /\ key # EmptyKey
    /\ Cardinality(RawPlaces(disk)) < MaxDamaged
    /\ LET record == LogRecord(
               log_record_key_with_seq(key, NON_TRANSACTION_SEQ_NO),
               value, NORMAL)
           a == append_log_record(EngineSt, record)
           fid == a.active_file.file_id
       IN /\ n \in 1..(Len(encode(record)) - 1)
          /\ disk' = [a.disk EXCEPT ![fid][Len(a.disk[fid])] =
                         [raw |-> SubSeq(encode(record), 1, n)]]
    /\ EngineGone
    /\ closeIndex' = NoCloseIndex
    /\ ret' = Ret("crash", EmptyKey, Ok(<<>>))
    /\ fresh' = FALSE
    /\ UNCHANGED <<tomb, committed>>

DamageKey == {<<97>>}
DamageRoom(n) == TotalRecords + n <= MaxRecords

PutDamage == EnginePut(<<97>>, Val(1, 40)) /\ DamageRoom(1)
DeleteDamage == EngineDelete(<<97>>) /\ DamageRoom(1)
TornPutDamage ==
    \E n \in 1..encoded_length(LogRecord(<<0, 97>>, Val(1, 40), NORMAL)) :
        TornPut(<<97>>, Val(1, 40), n) /\ DamageRoom(1)

NextDamage ==
    \/ Open
    \/ Close
    \/ PutDamage
    \/ DeleteDamage
    \/ FlipByte
    \/ TornPutDamage

SpecDamage == Init /\ [][NextDamage]_vars

\* The entries replay reads, at their offsets, before it stops: every entry
\* of the files in ascending order, up to the first raw one.
FirstRaw(d) ==
    {p \in RawPlaces(d) :
        \A q \in RawPlaces(d) : q[1] > p[1] \/ (q[1] = p[1] /\ q[2] >= p[2])}

\* What the read of the entry at place p returns.
ReadPlace(d, p) == read_log_record(d[p[1]], RecordOffset(d[p[1]], p[2]))

\* C16: when the record that replay reads at the first damaged entry fails
\* its checksum, open returns InvalidLogRecordCrc and there is no engine:
\* replay does not step over the record to the ones behind it.
C16_CorruptionFatal ==
    [][(~opened /\ ret'.op = "open"
          /\ \E p \in FirstRaw(disk) :
                ReadPlace(disk, p).res = "InvalidLogRecordCrc")
          => /\ ret'.res = Err("InvalidLogRecordCrc")
             /\ ~opened'
             /\ UNCHANGED <<disk, engineVars>>]_vars

\* C16's case: open has failed on a directory whose first file holds a
\* record with a changed value byte, in front of an intact record and of a
\* second file.
C16_Witness ==
    /\ ret = Ret("open", EmptyKey, Err("InvalidLogRecordCrc"))
    /\ ~opened
    /\ Cardinality(DOMAIN disk) = 2
    /\ \E p \in RawPlaces(disk) :
          /\ p[1] = INITAL_DILE_ID /\ p[2] = 1
          /\ Len(disk[p[1]]) = 2
          /\ Len(disk[p[1]][p[2]].raw) = Len(encode(LogRecord(<<0, 97>>, Val(1, 40), NORMAL)))
          /\ \E b \in 6..40 :
                disk[p[1]][p[2]].raw[b] # encode(LogRecord(<<0, 97>>, Val(1, 40), NORMAL))[b]

\* The bytes b hold a whole record header, which announces more bytes than
\* b has.
TornBytes(b) ==
    /\ ValidDelimiter(Tail(b))
    /\ ValidDelimiter(decode_length_delimiter(Tail(b)).rest)
    /\ Len(b) < 1 + length_delimiter_len(decode_length_delimiter(Tail(b)).value)
                  + length_delimiter_len(decode_length_delimiter(
                        decode_length_delimiter(Tail(b)).rest).value)
                  + decode_length_delimiter(Tail(b)).value
                  + decode_length_delimiter(
                        decode_length_delimiter(Tail(b)).rest).value
                  + 4

\* The places of the torn records: the last entry of a file, partly on disk.
TornTails(d) ==
    {p \in RawPlaces(d) : p[2] = Len(d[p[1]]) /\ TornBytes(d[p[1]][p[2]].raw)}

\* The directory without the entry at place p.
WithoutPlace(d, p) == [d EXCEPT ![p[1]] = SubSeq(@, 1, p[2] - 1)]

\* C17 (as claimed): when the end of the process during an append has left
\* the header of the last record of a file and fewer bytes behind it than
\* the header announces, the read at that offset returns ReadDataFileEOF
\* and the next open returns ok with the index of the records before the
\* torn one.
C17_TornTailIsEof ==
    [][(~opened /\ ret.op = "crash" /\ ret'.op = "open")
          => \A p \in TornTails(disk) :
                /\ ReadPlace(disk, p).res = "ReadDataFileEOF"
                /\ ret'.res = Ok(<<>>)
                /\ opened'
                /\ index' = load_index_from_data_file(
                                WithoutPlace(disk, p),
                                load_data_file(disk)).index]_vars

(***************************************************************************)
(* Several threads on one engine.  A call is a sequence of steps, each of   *)
(* them what the call does under one lock: append_log_record holds the      *)
(* write lock of active_file from its first line to its last, a call of     *)
(* the index holds the lock of the BTreeMap, commit holds                   *)
(* batch_commit_lock from its lock() to its return.  threads[t].pc is the   *)
(* step thread t is to take next.                                           *)
(***************************************************************************)
Local(t) == threads[t]

\* Engine::sync and DataFile::sync: every record of the active segment is
\* flushed.
Engine_sync(s, d, active) == MapPut(s, active.file_id, Len(d[active.file_id]))

\* A variant of append_log_record_sync without the sync of the segment that
\* a rotation closes.
append_log_record_sync_NoRotateSync(s, d, active, a, sync_write) ==
    IF sync_write THEN Engine_sync(s, a.disk, a.active_file) ELSE s

\* What is flushed after the call of append_log_record that took the
\* directory d with active segment active to a: a rotation syncs the
\* segment it closes before it opens the next one, and with sync_write the
\* active segment is synced after the write.
append_log_record_sync(s, d, active, a, sync_write) ==
    LET rotated == IF a.active_file.file_id # active.file_id
                   THEN Engine_sync(s, d, active) ELSE s
    IN IF sync_write THEN Engine_sync(rotated, a.disk, a.active_file)
       ELSE rotated

\* stable after the append that gave a.
Synced(a) ==
    append_log_record_sync(stable, disk, active_file, a, options.sync_write)

\* Engine::put up to the return of append_log_record.
ConcPutAppend(t, key, value) ==
    /\ opened
    /\ Local(t).pc = "idle"
    /\ IF key = EmptyKey
       THEN /\ ret' = Ret("put", key, Err("KeyIsEmpty"))
            /\ UNCHANGED <<disk, active_file, older_files, threads, stable>>
       ELSE /\ LET record == LogRecord(
                       log_record_key_with_seq(key, NON_TRANSACTION_SEQ_NO),
                       value, NORMAL)
                   a == append_log_record(EngineSt, record)
               IN /\ disk' = a.disk
                  /\ active_file' = a.active_file
                  /\ older_files' = a.older_files
                  /\ stable' = Synced(a)
                  /\ threads' = [threads EXCEPT ![t] =
                        [Idle EXCEPT !.pc = "put_index", !.key = key,
                                     !.pos = a.pos]]
            /\ ret' = ret
    /\ UNCHANGED <<cursor, options, locks>>
    /\ UNCHANGED <<opened, file_ids, index, seq_no, wb, ghostVars,
                  batch_commit_lock>>

\* Engine::put from index.put to its return.
ConcPutIndex(t) ==
    /\ opened
    /\ Local(t).pc = "put_index"
    /\ index' = BTree_put(index, Local(t).key, Local(t).pos)
    /\ ret' = Ret("put", Local(t).key, Ok(<<>>))
    /\ threads' = [threads EXCEPT ![t] = Idle]
    /\ UNCHANGED auxVars
    /\ UNCHANGED <<disk, opened, active_file, older_files, file_ids, seq_no,
                  wb, ghostVars, batch_commit_lock>>

\* Engine::delete up to the return of index.get.
ConcDeleteGet(t, key) ==
    /\ opened
    /\ Local(t).pc = "idle"
    /\ IF key = EmptyKey
       THEN ret' = Ret("delete", key, Err("KeyIsEmpty")) /\ threads' = threads
       ELSE IF ~BTree_has(index, key)
       THEN ret' = Ret("delete", key, Ok(<<>>)) /\ threads' = threads
       ELSE /\ ret' = ret
            /\ threads' = [threads EXCEPT ![t] =
                  [Idle EXCEPT !.pc = "delete_append", !.key = key]]
    /\ UNCHANGED auxVars
    /\ UNCHANGED <<disk, engineVars, wb, ghostVars, batch_commit_lock>>

\* Engine::delete: its append_log_record.
ConcDeleteAppend(t) ==
    /\ opened
    /\ Local(t).pc = "delete_append"
    /\ LET record == LogRecord(
               log_record_key_with_seq(Local(t).key, NON_TRANSACTION_SEQ_NO),
               <<>>, DELETED)
           a == append_log_record(EngineSt, record)
       IN /\ disk' = a.disk
          /\ active_file' = a.active_file
          /\ older_files' = a.older_files
          /\ stable' = Synced(a)
    /\ threads' = [threads EXCEPT ![t].pc = "delete_index"]
    /\ UNCHANGED <<cursor, options, locks>>
    /\ UNCHANGED <<opened, file_ids, index, seq_no, wb, ret, ghostVars,
                  batch_commit_lock>>

\* Engine::delete from index.delete, which returns whether it removed the
\* key, to its return.
ConcDeleteIndex(t) ==
    /\ opened
    /\ Local(t).pc = "delete_index"
    /\ index' = BTree_delete(index, Local(t).key)
    /\ ret' = Ret("delete", Local(t).key,
                  IF BTree_has(index, Local(t).key) THEN Ok(<<>>)
                  ELSE Err("IndexUpdateFailed"))
    /\ threads' = [threads EXCEPT ![t] = Idle]
    /\ UNCHANGED auxVars
    /\ UNCHANGED <<disk, opened, active_file, older_files, file_ids, seq_no,
                  wb, ghostVars, batch_commit_lock>>

\* A variant of ConcCommitBegin without the test for an empty batch.
ConcCommitBegin_NoEmptyTest(t, pending, max, ord) ==
    /\ opened
    /\ Local(t).pc = "idle"
    /\ ord \in Orders(DOMAIN pending)
    /\ IF Cardinality(DOMAIN pending) > max
       THEN /\ ret' = Ret("commit", EmptyKey, Err("ExceddMaxBatchNum"))
            /\ threads' = threads
       ELSE /\ ret' = ret
            /\ threads' = [threads EXCEPT ![t] =
                  [Idle EXCEPT !.pc = "commit_lock", !.pending = pending,
                               !.ord = ord]]
    /\ UNCHANGED auxVars
    /\ UNCHANGED <<disk, engineVars, wb, ghostVars, batch_commit_lock>>

\* WriteBatch::commit of the thread's own batch, whose staged records are
\* pending and whose limit is max, up to its call of
\* batch_commit_lock.lock().
ConcCommitBegin(t, pending, max, ord) ==
    /\ opened
    /\ Local(t).pc = "idle"
    /\ ord \in Orders(DOMAIN pending)
    /\ IF Cardinality(DOMAIN pending) = 0
       THEN ret' = Ret("commit", EmptyKey, Ok(<<>>)) /\ threads' = threads
       ELSE IF Cardinality(DOMAIN pending) > max
       THEN /\ ret' = Ret("commit", EmptyKey, Err("ExceddMaxBatchNum"))
            /\ threads' = threads
       ELSE /\ ret' = ret
            /\ threads' = [threads EXCEPT ![t] =
                  [Idle EXCEPT !.pc = "commit_lock", !.pending = pending,
                               !.ord = ord]]
    /\ UNCHANGED auxVars
    /\ UNCHANGED <<disk, engineVars, wb, ghostVars, batch_commit_lock>>

\* A variant of ConcCommitLock that does not wait for the lock.
ConcCommitLock_NoWait(t) ==
    /\ opened
    /\ Local(t).pc = "commit_lock"
    /\ batch_commit_lock' = t
    /\ seq_no' = seq_no + 1
    /\ threads' = [threads EXCEPT ![t].pc = "commit_append",
                                  ![t].seq = seq_no, ![t].i = 1]
    /\ UNCHANGED auxVars
    /\ UNCHANGED <<disk, opened, active_file, older_files, file_ids, index,
                  wb, ret, ghostVars>>

\* batch_commit_lock.lock() returns, and seq_no.fetch_add(1).
ConcCommitLock(t) ==
    /\ opened
    /\ Local(t).pc = "commit_lock"
    /\ batch_commit_lock = NoThread
    /\ batch_commit_lock' = t
    /\ seq_no' = seq_no + 1
    /\ threads' = [threads EXCEPT ![t].pc = "commit_append",
                                  ![t].seq = seq_no, ![t].i = 1]
    /\ UNCHANGED auxVars
    /\ UNCHANGED <<disk, opened, active_file, older_files, file_ids, index,
                  wb, ret, ghostVars>>

\* A variant of ConcCommitAppend that updates the index with each record it
\* appends.
ConcCommitAppend_Install(t) ==
    /\ opened
    /\ Local(t).pc = "commit_append"
    /\ LET item == Local(t).pending[Local(t).ord[Local(t).i]]
           record == LogRecord(log_record_key_with_seq(item.key, Local(t).seq),
                               item.value, item.rec_type)
           a == append_log_record(EngineSt, record)
       IN /\ disk' = a.disk
          /\ active_file' = a.active_file
          /\ older_files' = a.older_files
          /\ index' = update_index(index, item.key, item.rec_type, a.pos)
          /\ threads' = [threads EXCEPT
                ![t].positions = MapPut(@, item.key, a.pos),
                ![t].i = @ + 1,
                ![t].pc = IF Local(t).i = Len(Local(t).ord)
                          THEN "commit_finish" ELSE "commit_append"]
          /\ stable' = Synced(a)
    /\ UNCHANGED <<cursor, options, locks>>
    /\ UNCHANGED <<opened, file_ids, seq_no, wb, ret, ghostVars,
                  batch_commit_lock>>

\* One iteration of the first loop of commit.
ConcCommitAppend(t) ==
    /\ opened
    /\ Local(t).pc = "commit_append"
    /\ LET item == Local(t).pending[Local(t).ord[Local(t).i]]
           record == LogRecord(log_record_key_with_seq(item.key, Local(t).seq),
                               item.value, item.rec_type)
           a == append_log_record(EngineSt, record)
       IN /\ disk' = a.disk
          /\ active_file' = a.active_file
          /\ older_files' = a.older_files
          /\ threads' = [threads EXCEPT
                ![t].positions = MapPut(@, item.key, a.pos),
                ![t].i = @ + 1,
                ![t].pc = IF Local(t).i = Len(Local(t).ord)
                          THEN "commit_finish" ELSE "commit_append"]
          /\ stable' = Synced(a)
    /\ UNCHANGED <<cursor, options, locks>>
    /\ UNCHANGED <<opened, file_ids, index, seq_no, wb, ret, ghostVars,
                  batch_commit_lock>>

\* The append of the TXNFINISH record.
ConcCommitFinish(t) ==
    /\ opened
    /\ Local(t).pc = "commit_finish"
    /\ LET a == append_log_record(EngineSt, finish_record(Local(t).seq))
       IN /\ disk' = a.disk
          /\ active_file' = a.active_file
          /\ older_files' = a.older_files
          /\ stable' = Synced(a)
    /\ threads' = [threads EXCEPT
          ![t].pc = IF options.sync_writes THEN "commit_sync"
                    ELSE "commit_index",
          ![t].i = 1]
    /\ UNCHANGED <<cursor, options, locks>>
    /\ UNCHANGED <<opened, file_ids, index, seq_no, wb, ret, ghostVars,
                  batch_commit_lock>>

\* With sync_writes, commit calls Engine::sync on the segment that is
\* active by then.
ConcCommitSync(t) ==
    /\ opened
    /\ Local(t).pc = "commit_sync"
    /\ stable' = Engine_sync(stable, disk, active_file)
    /\ threads' = [threads EXCEPT ![t].pc = "commit_index"]
    /\ UNCHANGED <<cursor, options, locks>>
    /\ UNCHANGED <<disk, engineVars, wb, ret, ghostVars, batch_commit_lock>>

\* One iteration of the second loop of commit; after the last one commit
\* returns, which releases batch_commit_lock.
ConcCommitIndex(t) ==
    /\ opened
    /\ Local(t).pc = "commit_index"
    /\ LET item == Local(t).pending[Local(t).ord[Local(t).i]]
       IN index' = IF item.rec_type = NORMAL
                   THEN BTree_put(index, item.key, Local(t).positions[item.key])
                   ELSE IF item.rec_type = DELETED
                   THEN BTree_delete(index, item.key)
                   ELSE index
    /\ IF Local(t).i = Len(Local(t).ord)
       THEN /\ threads' = [threads EXCEPT ![t] = Idle]
            /\ batch_commit_lock' = NoThread
            /\ ret' = Ret("commit", EmptyKey, Ok(<<>>))
       ELSE /\ threads' = [threads EXCEPT ![t].i = @ + 1]
            /\ UNCHANGED <<batch_commit_lock, ret>>
    /\ UNCHANGED auxVars
    /\ UNCHANGED <<disk, opened, active_file, older_files, file_ids, seq_no,
                  wb, ghostVars>>

\* The calls of the threads write at most MaxConcRecords records: a call
\* starts only if the directory has room for its records and for those the
\* calls in progress have yet to append.
MaxConcRecords == 5

Owed(t) ==
    IF Local(t).pc \in {"delete_append", "commit_finish"} THEN 1
    ELSE IF Local(t).pc = "commit_lock" THEN Len(Local(t).ord) + 1
    ELSE IF Local(t).pc = "commit_append"
    THEN Len(Local(t).ord) - Local(t).i + 2
    ELSE 0

ConcRoom(n) == TotalRecords + Owed(1) + Owed(2) + n <= MaxConcRecords

ConcKey == <<97>>

\* The batches a thread commits: an empty one, a put of ConcKey, a delete
\* of it, or a put of it and a delete of another key.
ConcBatches ==
    {EmptyMap,
     MapPut(EmptyMap, ConcKey, LogRecord(ConcKey, Val(2, 45), NORMAL)),
     MapPut(EmptyMap, ConcKey, LogRecord(ConcKey, <<>>, DELETED)),
     MapPut(MapPut(EmptyMap, ConcKey, LogRecord(ConcKey, Val(2, 45), NORMAL)),
            <<98>>, LogRecord(<<98>>, <<>>, DELETED))}

PutConc == \E t \in Threads : ConcPutAppend(t, ConcKey, Val(1, 40)) /\ ConcRoom(1)
PutIndexConc == \E t \in Threads : ConcPutIndex(t)
DeleteConc == \E t \in Threads : ConcDeleteGet(t, ConcKey) /\ ConcRoom(1)
DeleteAppendConc == \E t \in Threads : ConcDeleteAppend(t)
DeleteIndexConc == \E t \in Threads : ConcDeleteIndex(t)
CommitBeginConc ==
    \E t \in Threads, pending \in ConcBatches :
        \E ord \in Orders(DOMAIN pending) :
            /\ ConcRoom(Len(ord) + 1)
            /\ ConcCommitBegin(t, pending, Cardinality(DOMAIN pending), ord)
CommitLockConc == \E t \in Threads : ConcCommitLock(t)
CommitAppendConc == \E t \in Threads : ConcCommitAppend(t)
CommitFinishConc == \E t \in Threads : ConcCommitFinish(t)
CommitSyncConc == \E t \in Threads : ConcCommitSync(t)
CommitIndexConc == \E t \in Threads : ConcCommitIndex(t)

NextConc ==
    \/ Open
    \/ PutConc
    \/ PutIndexConc
    \/ DeleteConc
    \/ DeleteAppendConc
    \/ DeleteIndexConc
    \/ CommitBeginConc
    \/ CommitLockConc
    \/ CommitAppendConc
    \/ CommitFinishConc
    \/ CommitSyncConc
    \/ CommitIndexConc

SpecConc == Init /\ [][NextConc]_vars

\* The threads on an engine and a batch whose options are chosen before
\* the engine is opened.
OptionChoices == [sync_write : BOOLEAN, sync_writes : BOOLEAN]

SetOptions ==
    /\ ~opened
    /\ ret.op = "init"
    /\ options' \in OptionChoices
    /\ ret' = Ret("options", EmptyKey, Ok(<<>>))
    /\ UNCHANGED <<disk, engineVars, wb, ghostVars, concVars, cursor, stable,
                  locks>>

NextSync ==
    \/ SetOptions
    \/ Open
    \/ PutConc
    \/ PutIndexConc
    \/ DeleteConc
    \/ DeleteAppendConc
    \/ DeleteIndexConc
    \/ CommitBeginConc
    \/ CommitLockConc
    \/ CommitAppendConc
    \/ CommitFinishConc
    \/ CommitSyncConc
    \/ CommitIndexConc

SpecSync == Init /\ [][NextSync]_vars

\* Log order: segment id, then position in the segment.
Before(p, q) == p[1] < q[1] \/ (p[1] = q[1] /\ p[2] < q[2])

\* The places of the records on user key k, and the last of them.
RecordsOn(d, k) == {p \in Places(d) : UserKeyOf(d[p[1]][p[2]]) = k}
LatestOn(d, k) ==
    CHOOSE p \in RecordsOn(d, k) : \A q \in RecordsOn(d, k) : q = p \/ Before(q, p)

AllReturned == \A t \in Threads : Local(t).pc = "idle"

\* C18 (as claimed): when every call of every thread has returned, a key
\* is in the index iff the latest record on it in log order is NORMAL, and
\* its locator is that of this record.
C18_IndexAtLatest ==
    (opened /\ AllReturned) =>
        \A k \in {ConcKey, <<98>>} :
            /\ BTree_has(index, k) <=>
                  /\ RecordsOn(disk, k) # {}
                  /\ disk[LatestOn(disk, k)[1]][LatestOn(disk, k)[2]].rec_type
                        = NORMAL
            /\ BTree_has(index, k) =>
                  index[k] = LogRecordPos(
                      LatestOn(disk, k)[1],
                      RecordOffset(disk[LatestOn(disk, k)[1]],
                                   LatestOn(disk, k)[2]))

\* The places of the records that carry sequence number S, and the first of
\* them in log order.
SeqPlaces(d, S) == {p \in Places(d) : SeqOf(d[p[1]][p[2]]) = S}
FirstOfSeq(d, S) ==
    CHOOSE p \in SeqPlaces(d, S) : \A q \in SeqPlaces(d, S) : q = p \/ Before(p, q)

\* C19: whatever the interleaving of the threads' commits, put and delete
\* calls, every record between the first record that carries a sequence
\* number S and the TXNFINISH record that carries S has the sequence number
\* S or 0, and of two TXNFINISH records the later in log order carries the
\* larger sequence number.
C19_CommitsSerialized ==
    /\ \A f \in FinishPlaces(disk) :
          \A q \in Places(disk) :
              (Before(FirstOfSeq(disk, SeqOf(disk[f[1]][f[2]])), q)
                  /\ Before(q, f))
              => SeqOf(disk[q[1]][q[2]])
                    \in {NON_TRANSACTION_SEQ_NO, SeqOf(disk[f[1]][f[2]])}
    /\ \A f, g \in FinishPlaces(disk) :
          Before(f, g) => SeqOf(disk[f[1]][f[2]]) < SeqOf(disk[g[1]][g[2]])

\* C19's case: two commits have returned, a thread's put has appended its
\* record between the record and the TXNFINISH record of one of them; every
\* call has returned.
C19_Witness ==
    /\ opened
    /\ Cardinality(FinishPlaces(disk)) = 2
    /\ \E f \in FinishPlaces(disk) :
          \E q \in Places(disk) :
              /\ Before(FirstOfSeq(disk, SeqOf(disk[f[1]][f[2]])), q)
              /\ Before(q, f)
              /\ SeqOf(disk[q[1]][q[2]]) = NON_TRANSACTION_SEQ_NO
    /\ AllReturned

(***************************************************************************)
(* The segments.                                                            *)
(***************************************************************************)
\* The largest of a non-empty set of segment ids.
MaxId(S) == CHOOSE m \in S : \A x \in S : x <= m

\* C23: an engine has one active segment; its id is not in older_files and
\* is larger than every id in older_files, and the files of the directory
\* are the active one and the older ones.  Open makes the highest id it
\* finds the active one (id 0, which it creates, when it finds none); a
\* rotation enters the old active id into older_files and makes the old id
\* plus 1 the active one.
C23_SegmentStructure ==
    [][/\ opened' =>
            /\ active_file'.file_id \notin older_files'
            /\ \A f \in older_files' : f < active_file'.file_id
            /\ DOMAIN disk' = older_files' \cup {active_file'.file_id}
       /\ (~opened /\ opened') =>
            /\ active_file'.file_id =
                  IF DOMAIN disk = {} THEN INITAL_DILE_ID
                  ELSE MaxId(DOMAIN disk)
            /\ DOMAIN disk' = DOMAIN disk \cup {active_file'.file_id}
       /\ (opened /\ opened' /\ active_file'.file_id # active_file.file_id) =>
            /\ active_file'.file_id = active_file.file_id + 1
            /\ older_files' = older_files \cup {active_file.file_id}]_vars

\* C23's case: a put of an engine that was opened on a directory with files
\* has rotated to segment 2, with segments 0 and 1 in older_files.
C23_Witness ==
    /\ opened
    /\ ret.op = "put"
    /\ ~fresh
    /\ older_files = {0, 1}
    /\ active_file.file_id = 2

\* Records below and above the size of a segment: the record of a put of
\* a 40-byte value has 49 bytes, that of a 100-byte value has 109.
SizeValues == {Val(1, 40), Val(3, 100)}

PutSize == \E value \in SizeValues : EnginePut(<<97>>, value) /\ Room(1)
DeleteSize == EngineDelete(<<97>>) /\ Room(1)

NextSize ==
    \/ Open
    \/ Close
    \/ PutSize
    \/ DeleteSize

SpecSize == Init /\ [][NextSize]_vars

\* The entry a step has appended to the active file it leaves.
Appended == disk'[active_file'.file_id][Len(disk'[active_file'.file_id])]

\* C22 (as claimed): an append rotates exactly when write_off plus the
\* encoded length of the record exceeds data_file_size; a segment larger
\* than data_file_size holds exactly one record; no segment that a rotation
\* has left is without a record.
C22_SizingPolicy ==
    [][/\ (opened /\ opened' /\ disk' # disk) =>
            ((active_file'.file_id # active_file.file_id)
               <=> (active_file.write_off + Len(EntryBytes(Appended))
                       > DataFileSize))
       /\ \A fid \in DOMAIN disk' :
            FileLen(disk'[fid]) > DataFileSize => Len(disk'[fid]) = 1
       /\ opened' => \A fid \in older_files' : disk'[fid] # <<>>]_vars

(***************************************************************************)
(* Records without sequence number between the records of a transaction.  *)
(***************************************************************************)
\* The directory when the record at place p was the last one appended.
UpTo(d, p) ==
    [fid \in {f \in DOMAIN d : f <= p[1]} |->
        IF fid = p[1] THEN SubSeq(d[fid], 1, p[2]) ELSE d[fid]]

\* The index replay builds on directory d.
Replayed(d) == load_index_from_data_file(d, load_data_file(d)).index

\* The places of the records without sequence number.
PointPlaces(d) ==
    {p \in Places(d) : SeqOf(d[p[1]][p[2]]) = NON_TRANSACTION_SEQ_NO}

\* p lies between two records of one transaction.
InsideTxn(d, p) ==
    \E q, r \in Places(d) :
        /\ Before(q, p) /\ Before(p, r)
        /\ SeqOf(d[q[1]][q[2]]) # NON_TRANSACTION_SEQ_NO
        /\ SeqOf(d[q[1]][q[2]]) = SeqOf(d[r[1]][r[2]])

\* C29: replay applies every record without sequence number to the index,
\* also one that lies between the records of a transaction, with or
\* without the TXNFINISH record of that transaction: after the replay of
\* the log up to such a record, its key is in the index at the record's
\* locator if the record is NORMAL and absent if it is DELETED.
C29_PointRecordsApplied ==
    \A p \in PointPlaces(disk) :
        LET r == disk[p[1]][p[2]]
            k == UserKeyOf(r)
            idx == Replayed(UpTo(disk, p))
        IN IF r.rec_type = NORMAL
           THEN /\ BTree_has(idx, k)
                /\ idx[k] = LogRecordPos(p[1], RecordOffset(disk[p[1]], p[2]))
           ELSE ~BTree_has(idx, k)

\* C29's case: a put of one thread appended its record between the records
\* of the commit of the other, whose TXNFINISH record is not yet appended.
C29_Witness ==
    \E p \in PointPlaces(disk) :
        /\ InsideTxn(disk, p)
        /\ disk[p[1]][p[2]].rec_type = NORMAL
        /\ \E q \in Places(disk) :
              /\ Before(q, p)
              /\ Unfinished(disk, disk[q[1]][q[2]])

(***************************************************************************)
(* Flushing.                                                               *)
(***************************************************************************)
\* The places of the records that are flushed.
FlushedPlaces(d, s) ==
    {p \in Places(d) : p[1] \in DOMAIN s /\ p[2] <= s[p[1]]}

\* C21: with sync_write, the record a put or a delete appends is flushed
\* when append_log_record returns, and a flushed record stays flushed, so
\* it is flushed when the call returns; with sync_writes, when commit
\* returns ok every staged record and the TXNFINISH record it appended are
\* flushed, in whatever segments a rotation during the commit left them.
C21_DurableOnReturn ==
    [][/\ FlushedPlaces(disk, stable) \subseteq FlushedPlaces(disk', stable')
       /\ \A t \in Threads :
            /\ (/\ options.sync_write
                /\ Local(t).pc \in {"idle", "delete_append"}
                /\ threads'[t].pc \in {"put_index", "delete_index"})
               => /\ Places(disk') \ Places(disk) # {}
                  /\ Places(disk') \ Places(disk)
                        \subseteq FlushedPlaces(disk', stable')
            /\ (/\ options.sync_writes
                /\ Local(t).pc = "commit_index"
                /\ threads'[t].pc = "idle"
                /\ ret'.res = Ok(<<>>))
               => /\ Local(t).seq \in Finished(disk')
                  /\ Cardinality(SeqPlaces(disk', Local(t).seq))
                        = Len(Local(t).ord) + 1
                  /\ SeqPlaces(disk', Local(t).seq)
                        \subseteq FlushedPlaces(disk', stable')]_vars

\* C21's case: with sync_writes and without sync_write, a commit returned
\* whose records lie in two segments.
C21_Witness ==
    /\ opened /\ AllReturned
    /\ options.sync_writes /\ ~options.sync_write
    /\ ret.op = "commit" /\ ret.res = Ok(<<>>)
    /\ \E S \in Finished(disk) :
          /\ \E p, q \in SeqPlaces(disk, S) : p[1] # q[1]
          /\ SeqPlaces(disk, S) \subseteq FlushedPlaces(disk, stable)
    /\ FlushedPlaces(disk, stable) # Places(disk)

(***************************************************************************)
(* The order of the steps of commit.                                       *)
(***************************************************************************)
\* The record the index gives for key k, read as get reads it.
Indexed(d, idx, k) == read_log_record(d[idx[k].file_id], idx[k].offset).record

RECURSIVE cmp(_, _)
cmp(x, y) ==
    IF x = <<>> THEN (IF y = <<>> THEN "Equal" ELSE "Less")
    ELSE IF y = <<>> THEN "Greater"
    ELSE IF Head(x) < Head(y) THEN "Less"
    ELSE IF Head(x) > Head(y) THEN "Greater"
    ELSE cmp(Tail(x), Tail(y))

\* Ordering::reverse.
reverse(c) == IF c = "Less" THEN "Greater" ELSE IF c = "Greater" THEN "Less" ELSE c

\* slice::starts_with.
starts_with(x, prefix) ==
    Len(prefix) <= Len(x) /\ SubSeq(x, 1, Len(prefix)) = prefix

\* Some and None of an Option.
Some(v) == [some |-> TRUE, value |-> v]
None == [some |-> FALSE, value |-> <<>>]

\* BTreeMap::iter: the entries in ascending key order.
RECURSIVE BTreeMap_iter(_)
BTreeMap_iter(idx) ==
    IF DOMAIN idx = {} THEN <<>>
    ELSE LET m == CHOOSE k \in DOMAIN idx :
                      \A j \in DOMAIN idx : cmp(k, j) # "Greater"
         IN <<[key |-> m, pos |-> idx[m]]>> \o BTreeMap_iter(BTree_delete(idx, m))

\* Vec::reverse.
RECURSIVE Vec_reverse(_)
Vec_reverse(v) == IF v = <<>> THEN <<>> ELSE Append(Vec_reverse(Tail(v)), Head(v))

\* BTree::get and BTree::list_keys.
BTree_get(idx, key) == IF key \in DOMAIN idx THEN Some(idx[key]) ELSE None
BTree_list_keys(idx) ==
    LET items == BTreeMap_iter(idx) IN [i \in 1..Len(items) |-> items[i].key]

\* A variant of BTree_iterator that leaves the items in ascending order.
BTree_iterator_Ascending(idx, option) ==
    [exists |-> TRUE, items |-> BTreeMap_iter(idx), curr_index |-> 0,
     options |-> option]

\* BTree::iterator: the fields of the BTreeIterator it builds.
BTree_iterator(idx, option) ==
    [exists |-> TRUE,
     items |-> IF option.reverse THEN Vec_reverse(BTreeMap_iter(idx))
               ELSE BTreeMap_iter(idx),
     curr_index |-> 0,
     options |-> option]

\* slice::binary_search_by between left and right, with the comparator of
\* seek: found at an index, or the index where the key would be inserted.
RECURSIVE binary_search_by(_, _, _, _, _)
binary_search_by(items, key, rev, left, right) ==
    IF left >= right THEN left
    ELSE LET mid == left + (right - left) \div 2
             c == IF rev THEN reverse(cmp(items[mid + 1].key, key))
                  ELSE cmp(items[mid + 1].key, key)
         IN IF c = "Less" THEN binary_search_by(items, key, rev, mid + 1, right)
            ELSE IF c = "Greater"
            THEN binary_search_by(items, key, rev, left, mid)
            ELSE mid

\* A variant of BTreeIterator_seek whose comparator is never reversed.
BTreeIterator_seek_PlainCmp(items, key, rev) ==
    binary_search_by(items, key, FALSE, 0, Len(items))

\* BTreeIterator::seek: the new curr_index.
BTreeIterator_seek(items, key, rev) ==
    binary_search_by(items, key, rev, 0, Len(items))

\* BTreeIterator::next from curr_index: the new curr_index and the result.
RECURSIVE BTreeIterator_next(_, _, _)
BTreeIterator_next(items, curr_index, prefix) ==
    IF curr_index >= Len(items) THEN [curr_index |-> curr_index, res |-> None]
    ELSE IF prefix = <<>> \/ starts_with(items[curr_index + 1].key, prefix)
    THEN [curr_index |-> curr_index + 1, res |-> Some(items[curr_index + 1])]
    ELSE BTreeIterator_next(items, curr_index + 1, prefix)

\* The variables the calls on the index and on its iterator leave alone.
indexFrame == <<disk, opened, active_file, older_files, file_ids, seq_no, wb,
                fresh, afterFresh, tomb, committed, closeIndex, concVars,
                options, stable, locks>>

\* A variant of IndexPut after which an iterator holds the new entry too.
IndexPut_Live(key, pos) ==
    /\ index' = BTree_put(index, key, pos)
    /\ lastPut' = MapPut(lastPut, key, pos)
    /\ ret' = Ret("index_put", key, TRUE)
    /\ cursor' = IF cursor.exists
                 THEN [cursor EXCEPT !.items =
                          BTree_iterator(index', cursor.options).items]
                 ELSE cursor
    /\ UNCHANGED indexFrame

\* Indexer::put, get, delete and list_keys on the BTree.  lastPut is the
\* locator of the last put on a key that no delete followed.
IndexPut(key, pos) ==
    /\ index' = BTree_put(index, key, pos)
    /\ lastPut' = MapPut(lastPut, key, pos)
    /\ ret' = Ret("index_put", key, TRUE)
    /\ UNCHANGED <<cursor, indexFrame>>

IndexGet(key) ==
    /\ ret' = Ret("index_get", key, BTree_get(index, key))
    /\ UNCHANGED <<index, lastPut, cursor, indexFrame>>

IndexDelete(key) ==
    /\ index' = BTree_delete(index, key)
    /\ lastPut' = MapDel(lastPut, key)
    /\ ret' = Ret("index_delete", key, BTree_has(index, key))
    /\ UNCHANGED <<cursor, indexFrame>>

IndexListKeys ==
    /\ ret' = Ret("list_keys", EmptyKey, BTree_list_keys(index))
    /\ UNCHANGED <<index, lastPut, cursor, indexFrame>>

\* Indexer::iterator, and seek, rewind and next on the iterator it gave.
IndexIterator(option) ==
    /\ cursor' = [BTree_iterator(index, option) @@ NoCursor EXCEPT
                     !.captured = index]
    /\ ret' = Ret("iterator", EmptyKey, TRUE)
    /\ UNCHANGED <<index, lastPut, indexFrame>>

CursorSeek(key) ==
    /\ cursor.exists
    /\ cursor' = [cursor EXCEPT
          !.curr_index = BTreeIterator_seek(cursor.items, key,
                                            cursor.options.reverse),
          !.yielded = <<>>,
          !.sought = [valid |-> TRUE, key |-> key]]
    /\ ret' = Ret("seek", key, TRUE)
    /\ UNCHANGED <<index, lastPut, indexFrame>>

CursorRewind ==
    /\ cursor.exists
    /\ cursor' = [cursor EXCEPT !.curr_index = 0, !.yielded = <<>>,
                                !.sought = NoCursor.sought]
    /\ ret' = Ret("rewind", EmptyKey, TRUE)
    /\ UNCHANGED <<index, lastPut, indexFrame>>

CursorNext ==
    /\ cursor.exists
    /\ LET n == BTreeIterator_next(cursor.items, cursor.curr_index,
                                   cursor.options.prefix)
       IN /\ cursor' = [cursor EXCEPT
                !.curr_index = n.curr_index,
                !.yielded = IF n.res.some THEN Append(@, n.res.value) ELSE @]
          /\ ret' = Ret("next", EmptyKey, n.res)
    /\ UNCHANGED <<index, lastPut, indexFrame>>

\* The keys of the example: acde, bcde, ccae, ccde, ccdf, cfde; the index
\* holds some of them at the start, each at its own locator.
ExampleKeys ==
    <<<<97, 99, 100, 101>>, <<98, 99, 100, 101>>, <<99, 99, 97, 101>>,
      <<99, 99, 100, 101>>, <<99, 99, 100, 102>>, <<99, 102, 100, 101>>>>

ExampleSets ==
    {{}, {1, 3, 6}, {2, 4, 5}, 1..6}

IndexOf(S) ==
    [k \in {ExampleKeys[i] : i \in S} |->
        LogRecordPos(0, 49 * ((CHOOSE i \in S : ExampleKeys[i] = k) - 1))]

\* The keys and locators of the calls: the key ccde, and the key c, which is
\* shorter than the prefix; the prefixes none and cc.
MutKeys == {ExampleKeys[4], <<99>>}
PutPositions == {LogRecordPos(1, 0)}
SeekKeys ==
    {<<97>>, <<99, 99>>, ExampleKeys[4], <<99, 99, 100, 101, 0>>, <<100>>}
IteratorOptions == [prefix : {<<>>, <<99, 99>>}, reverse : BOOLEAN]

InitIndex ==
    /\ disk = [x \in {} |-> <<>>]
    /\ opened = FALSE
    /\ active_file = DataFile_new(INITAL_DILE_ID)
    /\ older_files = {}
    /\ file_ids = <<>>
    /\ index \in {IndexOf(S) : S \in ExampleSets}
    /\ seq_no = 1
    /\ wb = NoBatch
    /\ ret = Ret("init", EmptyKey, Ok(<<>>))
    /\ lastPut = index
    /\ fresh = FALSE
    /\ afterFresh = FALSE
    /\ tomb = {}
    /\ committed = EmptyMap
    /\ closeIndex = NoCloseIndex
    /\ threads = [t \in Threads |-> Idle]
    /\ batch_commit_lock = NoThread
    /\ cursor = NoCursor
    /\ options = DefaultOptions
    /\ stable = [x \in {} |-> 0]
    /\ locks = NoLocks

PutIndex == \E key \in MutKeys, pos \in PutPositions : IndexPut(key, pos)
GetIndex == \E key \in MutKeys : IndexGet(key)
DeleteIndex == \E key \in MutKeys : IndexDelete(key)
ListKeysIndex == IndexListKeys
IteratorIndex == \E option \in IteratorOptions : IndexIterator(option)
SeekIndex == \E key \in SeekKeys : CursorSeek(key)
RewindIndex == CursorRewind
NextIndex == CursorNext

NextOnIndex ==
    \/ PutIndex
    \/ GetIndex
    \/ DeleteIndex
    \/ ListKeysIndex
    \/ IteratorIndex
    \/ SeekIndex
    \/ RewindIndex
    \/ NextIndex

SpecIndex == InitIndex /\ [][NextOnIndex]_vars

\* x is before y in the lexicographic order of byte sequences.
LexLess(x, y) ==
    \E i \in 1..Len(y) :
        /\ \A j \in 1..(i - 1) : j <= Len(x) /\ x[j] = y[j]
        /\ i > Len(x) \/ x[i] < y[i]

\* The sequence of keys ks is strictly ascending.
Ascending(ks) == \A i, j \in 1..Len(ks) : i < j => LexLess(ks[i], ks[j])
Descending(ks) == \A i, j \in 1..Len(ks) : i < j => LexLess(ks[j], ks[i])

\* C28: put returns true and leaves the key at the locator it was given
\* and every other key as it was; get returns the locator of the last put
\* on the key that no delete followed, else none; delete returns whether
\* the key was present and removes it; list_keys returns the present keys
\* in ascending order.
C28_IndexContract ==
    [][/\ ret'.op = "index_put" =>
            /\ ret'.res = TRUE
            /\ DOMAIN index' = DOMAIN index \cup {ret'.key}
            /\ index'[ret'.key] = lastPut'[ret'.key]
            /\ \A k \in DOMAIN index \ {ret'.key} : index'[k] = index[k]
       /\ ret'.op = "index_get" =>
            /\ ret'.res = IF ret'.key \in DOMAIN lastPut
                          THEN Some(lastPut[ret'.key]) ELSE None
            /\ index' = index
       /\ ret'.op = "index_delete" =>
            /\ ret'.res = (ret'.key \in DOMAIN index)
            /\ DOMAIN index' = DOMAIN index \ {ret'.key}
            /\ \A k \in DOMAIN index' : index'[k] = index[k]
       /\ ret'.op = "list_keys" =>
            /\ {ret'.res[i] : i \in 1..Len(ret'.res)} = DOMAIN index
            /\ Ascending(ret'.res)
            /\ index' = index]_vars

\* C28's case: list_keys on an index of seven keys, one of them shorter
\* than the others and one put a second time.
C28_Witness ==
    /\ ret.op = "list_keys" /\ Len(ret.res) = 7
    /\ ret.res[3] = <<99>>
    /\ index[ExampleKeys[4]] \in PutPositions

\* Key k starts with the bytes p.
HasPrefix(k, p) == Len(p) <= Len(k) /\ \A i \in 1..Len(p) : k[i] = p[i]

\* The keys the iterator has returned, in the order of their return, and
\* the keys of the index it was made of that start with its prefix.
YieldedKeys == [i \in 1..Len(cursor.yielded) |-> cursor.yielded[i].key]
Wanted == {k \in DOMAIN cursor.captured : HasPrefix(k, cursor.options.prefix)}

\* C25: since an iterator was made or rewound, its calls of next have
\* returned keys of the index that start with the prefix (all keys if the
\* prefix is empty), each once, in ascending order in forward mode and in
\* descending order in reverse mode, without passing over one; next
\* returns nil only when it has returned them all.
C25_IteratorOrder ==
    (cursor.exists /\ ~cursor.sought.valid) =>
        /\ \A i \in 1..Len(YieldedKeys) : YieldedKeys[i] \in Wanted
        /\ IF cursor.options.reverse THEN Descending(YieldedKeys)
           ELSE Ascending(YieldedKeys)
        /\ \A k \in Wanted \ {YieldedKeys[i] : i \in 1..Len(YieldedKeys)} :
              \A i \in 1..Len(YieldedKeys) :
                 IF cursor.options.reverse THEN LexLess(k, YieldedKeys[i])
                 ELSE LexLess(YieldedKeys[i], k)
        /\ ret.op = "next" =>
              IF ret.res.some
              THEN ret.res.value = cursor.yielded[Len(cursor.yielded)]
              ELSE {YieldedKeys[i] : i \in 1..Len(YieldedKeys)} = Wanted

\* C25's case: on the index of the six keys of the example, next with the
\* prefix cc has returned ccae, ccde and ccdf, and then nil.
C25_Witness ==
    /\ cursor.exists /\ ~cursor.sought.valid
    /\ cursor.captured = IndexOf(1..6)
    /\ cursor.options = [prefix |-> <<99, 99>>, reverse |-> FALSE]
    /\ ret.op = "next" /\ ~ret.res.some
    /\ YieldedKeys = <<ExampleKeys[3], ExampleKeys[4], ExampleKeys[5]>>

\* The keys of the captured index at or after k (forward), at or before k
\* (reverse), and the first of them in the iterator's direction.
SeekSet(k) ==
    {x \in DOMAIN cursor.captured :
        x = k \/ IF cursor.options.reverse THEN LexLess(x, k) ELSE LexLess(k, x)}
SeekFirst(k) ==
    CHOOSE m \in SeekSet(k) :
        \A x \in SeekSet(k) :
            x = m \/ IF cursor.options.reverse THEN LexLess(x, m)
                     ELSE LexLess(m, x)

\* C26: the first next after seek(k), with empty prefix, returns the
\* smallest captured key >= k in forward mode and the largest captured key
\* <= k in reverse mode, with its locator, and nil when there is none.
C26_IteratorSeek ==
    [][(/\ cursor.exists /\ cursor.sought.valid /\ cursor.yielded = <<>>
        /\ cursor.options.prefix = <<>>
        /\ ret'.op = "next")
       => IF SeekSet(cursor.sought.key) = {} THEN ret'.res = None
          ELSE ret'.res =
                 Some([key |-> SeekFirst(cursor.sought.key),
                       pos |-> cursor.captured[SeekFirst(cursor.sought.key)]])
      ]_vars

\* C26's case: in reverse mode on the six keys, seek of a key that is not
\* in the index, just after ccde, and next returned ccde.
C26_Witness ==
    /\ cursor.exists /\ cursor.sought.valid
    /\ cursor.captured = IndexOf(1..6)
    /\ cursor.options = [prefix |-> <<>>, reverse |-> TRUE]
    /\ cursor.sought.key = <<99, 99, 100, 101, 0>>
    /\ ret.op = "next" /\ ret.res.some
    /\ YieldedKeys = <<ExampleKeys[4]>>

\* The key/locator pairs of index idx.
Pairs(idx) == {[key |-> k, pos |-> idx[k]] : k \in DOMAIN idx}

\* C27: an iterator holds the key/locator pairs of the index at the time it
\* was made, whatever the index holds now; put and delete on the index
\* leave the iterator as it is, and next returns pairs of that index only,
\* all of those that start with the prefix by the time it returns nil.
C27_IteratorSnapshot ==
    [][/\ ret'.op \in {"index_put", "index_delete"} => cursor' = cursor
       /\ cursor'.exists =>
            /\ {cursor'.items[i] : i \in 1..Len(cursor'.items)}
                  = Pairs(cursor'.captured)
            /\ Len(cursor'.items) = Cardinality(DOMAIN cursor'.captured)
       /\ (cursor.exists /\ ret'.op \in {"next", "seek", "rewind"}) =>
            /\ cursor'.items = cursor.items
            /\ cursor'.captured = cursor.captured
       /\ (cursor.exists /\ ret'.op = "next") =>
            IF ret'.res.some THEN ret'.res.value \in Pairs(cursor.captured)
            ELSE ~cursor.sought.valid =>
                   {cursor.yielded[i] : i \in 1..Len(cursor.yielded)}
                      = {x \in Pairs(cursor.captured) :
                            HasPrefix(x.key, cursor.options.prefix)}]_vars

\* C27's case: next returned ccde at its first locator after ccde was
\* deleted from the index and another key was put.
C27_Witness ==
    /\ cursor.exists
    /\ ret.op = "next" /\ ret.res.some
    /\ ret.res.value.key = ExampleKeys[4]
    /\ ret.res.value.pos = IndexOf(1..6)[ExampleKeys[4]]
    /\ ExampleKeys[4] \notin DOMAIN index
    /\ <<99>> \in DOMAIN index /\ <<99>> \notin DOMAIN cursor.captured

(***************************************************************************)
(* The locks: Engine.active_file, Engine.older_files and the tree of the   *)
(* index are RwLocks, Engine.batch_commit_lock and the pending_writes of   *)
(* each batch are Mutexes.  A call is the sequence of the lock operations  *)
(* it does; where the code branches on data, either branch may be taken.   *)
(* A call on the index takes the lock of the tree and releases it before   *)
(* it requests or releases any other lock: it is one step, within which    *)
(* the lock is taken and released.  The locks inside a DataFile and a      *)
(* FileIO are taken and released in the same way, and written only under   *)
(* the write lock of active_file, so that they never block: they are left  *)
(* out.                                                                    *)
(***************************************************************************)
Batches == {1, 2}
pending_writes(b) == IF b = 1 THEN "pending_writes_1" ELSE "pending_writes_2"

Acq(lock, mode) == [op |-> "acq", lock |-> lock, mode |-> mode, block |-> <<>>]
Rel(lock) == [op |-> "rel", lock |-> lock, mode |-> "-", block |-> <<>>]
Opt(block) == [op |-> "opt", lock |-> "-", mode |-> "-", block |-> block]
Use(lock, mode) == [op |-> "use", lock |-> lock, mode |-> mode, block |-> <<>>]

RECURSIVE Repeat(_, _)
Repeat(block, n) == IF n = 0 THEN <<>> ELSE block \o Repeat(block, n - 1)

\* BTree::get and list_keys take the read lock of the tree, put and delete
\* its write lock, for the time of the call.
Locks_index_get == <<Use("tree", "r")>>
Locks_index_put == <<Use("tree", "w")>>

\* append_log_record: active_file.write(); on rotation older_files.write()
\* until the end of the if block; active_file is released at the return.
Locks_append_log_record ==
    <<Acq("active_file", "w"),
      Opt(<<Acq("older_files", "w"), Rel("older_files")>>),
      Rel("active_file")>>

\* A variant of Locks_get_value_by_position that takes older_files first.
Locks_get_value_by_position_OlderFirst ==
    <<Acq("older_files", "r"), Acq("active_file", "r"),
      Rel("active_file"), Rel("older_files")>>

\* get_value_by_position: active_file.read(), then older_files.read(); the
\* guards are dropped in the reverse order.
Locks_get_value_by_position ==
    <<Acq("active_file", "r"), Acq("older_files", "r"),
      Rel("older_files"), Rel("active_file")>>

\* Engine::sync and Engine::close.
Locks_sync == <<Acq("active_file", "r"), Rel("active_file")>>

\* Engine::get, put and delete.
Locks_get == Locks_index_get \o <<Opt(Locks_get_value_by_position)>>
Locks_put == Locks_append_log_record \o Locks_index_put
Locks_delete ==
    Locks_index_get \o <<Opt(Locks_append_log_record \o Locks_index_put)>>

\* WriteBatch::put, delete and commit on batch b; commit with n staged
\* records; a commit of an empty batch returns after pending_writes.lock().
Locks_batch_put(b) == <<Acq(pending_writes(b), "w"), Rel(pending_writes(b))>>
Locks_batch_delete(b) ==
    <<Acq(pending_writes(b), "w")>> \o Locks_index_get
        \o <<Rel(pending_writes(b))>>
Locks_commit(b, n) ==
    IF n = 0 THEN <<Acq(pending_writes(b), "w"), Rel(pending_writes(b))>>
    ELSE <<Acq(pending_writes(b), "w"), Acq("batch_commit_lock", "w")>>
         \o Repeat(Locks_append_log_record, n + 1)
         \o <<Opt(Locks_sync)>>
         \o Repeat(Locks_index_put, n)
         \o <<Rel("batch_commit_lock"), Rel(pending_writes(b))>>

\* The staged records of a commit.
MaxStaged == 2

\* The next lock operation of thread t, if it is in a call.
InCall(t) == locks.prog[t] # <<>>
NextOp(t) == Head(locks.prog[t])
Wants(t, lock, mode) ==
    InCall(t) /\ NextOp(t) = Acq(lock, mode)
Holds(t, lock, mode) == [t |-> t, lock |-> lock, mode |-> mode] \in locks.held

\* A write lock or a mutex is free for a thread when nobody holds the
\* lock, a read lock when no writer holds it.
Free(lock, mode) ==
    IF mode = "w"
    THEN \A u \in LockThreads : ~Holds(u, lock, "w") /\ ~Holds(u, lock, "r")
    ELSE \A u \in LockThreads : ~Holds(u, lock, "w")

\* A lock is granted when it is free and no other thread is parked on it:
\* parking_lot hands a lock to the thread parked in its queue before
\* threads that request it later, readers after a parked writer included.
CanAcquire(t, lock, mode) ==
    Free(lock, mode) /\ locks.parked[lock] \in {NoThread, t}

lockFrame == <<disk, engineVars, wb, ret, ghostVars, concVars, cursor,
               options, stable>>

\* The thread runs on to the next lock it requests or releases, or to its
\* return: it makes its calls on the index, and where the code branches
\* it takes the branch or not.
RECURSIVE RunOn(_, _)
RunOn(prog, taken) ==
    IF prog = <<>> THEN <<>>
    ELSE IF Head(prog).op = "use" THEN RunOn(Tail(prog), taken)
    ELSE IF Head(prog).op = "opt"
    THEN RunOn(IF taken THEN Head(prog).block \o Tail(prog) ELSE Tail(prog),
               taken)
    ELSE prog

\* A thread that is in no call calls the engine or a batch.
LockCall(t, prog, taken) ==
    /\ ~InCall(t)
    /\ locks' = [locks EXCEPT !.prog[t] = RunOn(prog, taken)]
    /\ UNCHANGED lockFrame

\* The thread's lock(), read() or write() returns.
LockAcquire(t, taken) ==
    /\ InCall(t)
    /\ NextOp(t).op = "acq"
    /\ CanAcquire(t, NextOp(t).lock, NextOp(t).mode)
    /\ locks' = [locks EXCEPT
          !.prog[t] = RunOn(Tail(@), taken),
          !.held = @ \cup {[t |-> t, lock |-> NextOp(t).lock,
                            mode |-> NextOp(t).mode]},
          !.parked[NextOp(t).lock] = NoThread]
    /\ UNCHANGED lockFrame

\* The thread finds the lock taken and parks in its queue.
LockPark(t) ==
    /\ InCall(t)
    /\ NextOp(t).op = "acq"
    /\ ~Free(NextOp(t).lock, NextOp(t).mode)
    /\ locks.parked[NextOp(t).lock] = NoThread
    /\ locks' = [locks EXCEPT !.parked[NextOp(t).lock] = t]
    /\ UNCHANGED lockFrame

\* The thread drops a guard.
LockRelease(t, taken) ==
    /\ InCall(t)
    /\ NextOp(t).op = "rel"
    /\ locks' = [locks EXCEPT
          !.prog[t] = RunOn(Tail(@), taken),
          !.held = {h \in @ : ~(h.t = t /\ h.lock = NextOp(t).lock)}]
    /\ UNCHANGED lockFrame

GetLock == \E t \in LockThreads, taken \in BOOLEAN : LockCall(t, Locks_get, taken)
PutLock == \E t \in LockThreads : LockCall(t, Locks_put, FALSE)
DeleteLock == \E t \in LockThreads, taken \in BOOLEAN : LockCall(t, Locks_delete, taken)
SyncLock == \E t \in LockThreads : LockCall(t, Locks_sync, FALSE)
\* At most MaxBatchCallers threads are in calls on batches at a time.
MaxBatchCallers == 2
OnBatch(t) ==
    \E i \in 1..Len(locks.prog[t]), b \in Batches :
        locks.prog[t][i] = Rel(pending_writes(b))
BatchRoom == Cardinality({t \in LockThreads : OnBatch(t)}) < MaxBatchCallers

BatchPutLock ==
    \E t \in LockThreads, b \in Batches :
        BatchRoom /\ LockCall(t, Locks_batch_put(b), FALSE)
BatchDeleteLock ==
    \E t \in LockThreads, b \in Batches :
        BatchRoom /\ LockCall(t, Locks_batch_delete(b), FALSE)
CommitLock ==
    \E t \in LockThreads, b \in Batches, n \in 0..MaxStaged :
        BatchRoom /\ LockCall(t, Locks_commit(b, n), FALSE)
LockStep(t) ==
    \/ \E taken \in BOOLEAN : LockAcquire(t, taken)
    \/ LockPark(t)
    \/ \E taken \in BOOLEAN : LockRelease(t, taken)
AcquireLock == \E t \in LockThreads, taken \in BOOLEAN : LockAcquire(t, taken)
ParkLock == \E t \in LockThreads : LockPark(t)
ReleaseLock == \E t \in LockThreads, taken \in BOOLEAN : LockRelease(t, taken)

NextLock ==
    \/ GetLock
    \/ PutLock
    \/ DeleteLock
    \/ SyncLock
    \/ BatchPutLock
    \/ BatchDeleteLock
    \/ CommitLock
    \/ AcquireLock
    \/ ParkLock
    \/ ReleaseLock

SpecLock == Init /\ [][NextLock]_vars

\* The scheduler and the locks of parking_lot are fair: a thread that can
\* go on again and again does, be it by taking a lock, by parking on it or
\* by running on.
SpecLockFair == SpecLock /\ \A t \in LockThreads : SF_vars(LockStep(t))

\* Thread t waits for thread u: t requests a lock that u holds in a mode
\* that excludes the request, or on which u is parked.
WaitsFor(t, u) ==
    /\ InCall(t) /\ NextOp(t).op = "acq"
    /\ \/ Holds(u, NextOp(t).lock, "w")
       \/ NextOp(t).mode = "w" /\ Holds(u, NextOp(t).lock, "r")
       \/ u # t /\ locks.parked[NextOp(t).lock] = u

NoWaitCycle ==
    \A t \in LockThreads :
        /\ ~WaitsFor(t, t)
        /\ \A u \in LockThreads :
              /\ ~(WaitsFor(t, u) /\ WaitsFor(u, t))
              /\ \A v \in LockThreads :
                    ~(WaitsFor(t, u) /\ WaitsFor(u, v) /\ WaitsFor(v, t))

\* A thread that holds older_files holds active_file, and a thread that
\* requests active_file does not hold older_files.
ActiveBeforeOlder ==
    \A t \in LockThreads, m \in {"r", "w"} :
        /\ Holds(t, "older_files", m) =>
              Holds(t, "active_file", "r") \/ Holds(t, "active_file", "w")
        /\ Wants(t, "active_file", m) =>
              ~Holds(t, "older_files", "r") /\ ~Holds(t, "older_files", "w")

\* C24: whatever calls of get, put, delete, sync and of put, delete and
\* commit on a batch the threads make, with or without rotation, no
\* threads wait for each other's locks in a cycle, active_file is taken
\* before older_files, and every call returns.
C24_DeadlockFree ==
    /\ [](NoWaitCycle /\ ActiveBeforeOlder)
    /\ \A t \in LockThreads : InCall(t) ~> ~InCall(t)

\* C24's case: one thread is in a rotation and holds active_file and
\* older_files, another is in a get and waits to read active_file, and the
\* third is in a commit, holds batch_commit_lock and waits to write
\* active_file.
C24_Witness ==
    \E t, u, v \in LockThreads :
        /\ Holds(t, "active_file", "w") /\ Holds(t, "older_files", "w")
        /\ Wants(u, "active_file", "r")
        /\ Holds(v, "batch_commit_lock", "w") /\ Wants(v, "active_file", "w")

(***************************************************************************)
(* Staging a delete.                                                       *)
(***************************************************************************)

\* C31: a WriteBatch::delete of a key that is not in the index of the engine
\* leaves no record staged on that key (so that a commit appends no DELETED
\* record on it); a DELETED record is staged only for a key of the index.
C31_AbsentKeyNotStaged ==
    [][(/\ ret'.op = "wb_delete"
        /\ ret'.res.err = "ok"
        /\ ~BTree_has(index, ret'.key))
       => ret'.key \notin DOMAIN wb'.pending_writes]_vars

(***************************************************************************)
(* data_file.rs: a DataFile written and read record by record, as          *)
(* test_data_file_read_log_record does and as the loop of                  *)
(* load_index_from_data_file does.                                         *)
(***************************************************************************)
\* The file holds at most this many records.
MaxScanRecords == 3
ScanFileId == INITAL_DILE_ID

\* Records as the engine builds them (the key is never empty): a put, a put
\* of an empty value, of zero bytes and of a value whose size takes two
\* bytes, a delete, and a record and the TXNFINISH of a transaction.
ScanRecords ==
    {LogRecord(log_record_key_with_seq(<<97>>, NON_TRANSACTION_SEQ_NO),
               Val(1, 40), NORMAL),
     LogRecord(log_record_key_with_seq(<<97>>, NON_TRANSACTION_SEQ_NO),
               <<>>, NORMAL),
     LogRecord(log_record_key_with_seq(<<97>>, NON_TRANSACTION_SEQ_NO),
               Val(0, 12), NORMAL),
     LogRecord(log_record_key_with_seq(<<98>>, NON_TRANSACTION_SEQ_NO),
               Val(3, 130), NORMAL),
     LogRecord(log_record_key_with_seq(<<97>>, NON_TRANSACTION_SEQ_NO),
               <<>>, DELETED),
     LogRecord(log_record_key_with_seq(<<98>>, 1), Val(2, 45), NORMAL),
     finish_record(1)}

InitScan ==
    /\ disk = new_io_manager([x \in {} |-> <<>>], ScanFileId)
    /\ opened = FALSE
    /\ active_file = DataFile_new(ScanFileId)
    /\ older_files = {}
    /\ file_ids = <<>>
    /\ index = EmptyIndex
    /\ seq_no = 1
    /\ wb = NoBatch
    /\ ret = Ret("init", EmptyKey, Ok(<<>>))
    /\ lastPut = EmptyMap
    /\ fresh = FALSE
    /\ afterFresh = FALSE
    /\ tomb = {}
    /\ committed = EmptyMap
    /\ closeIndex = NoCloseIndex
    /\ threads = [t \in Threads |-> Idle]
    /\ batch_commit_lock = NoThread
    /\ cursor = NoCursor
    /\ options = DefaultOptions
    /\ stable = [x \in {} |-> 0]
    /\ locks = NoLocks

scanFrame ==
    UNCHANGED <<opened, older_files, file_ids, index, seq_no, wb, ghostVars,
                concVars, auxVars>>

\* DataFile::write of the encoding of record.
DataFile_write(record) ==
    /\ disk' = [disk EXCEPT ![active_file.file_id] = Append(@, record)]
    /\ active_file' = [active_file EXCEPT !.write_off = @ + Len(encode(record))]
    /\ ret' = Ret("write", record.key, Ok(Len(encode(record))))
    /\ scanFrame

\* DataFile::read_log_record(offset); ret keeps the offset of the call.
DataFile_read_log_record(offset) ==
    /\ LET r == read_log_record(disk[active_file.file_id], offset)
       IN ret' = [op |-> "read_log_record", key |-> EmptyKey,
                  offset |-> offset,
                  res |-> IF r.res = "ok"
                          THEN Ok([record |-> r.record, size |-> r.size])
                          ELSE Err(r.res)]
    /\ UNCHANGED <<disk, active_file>>
    /\ scanFrame

WriteScan ==
    \E record \in ScanRecords :
        Len(disk[ScanFileId]) < MaxScanRecords /\ DataFile_write(record)

\* The read at offset 0, and the read at the offset of the last read plus
\* the size it returned.
ReadFirstScan == DataFile_read_log_record(0)
ReadNextScan ==
    /\ ret.op = "read_log_record"
    /\ ret.res.err = "ok"
    /\ DataFile_read_log_record(ret.offset + ret.res.value.size)

NextScan == WriteScan \/ ReadFirstScan \/ ReadNextScan

SpecScan == InitScan /\ [][NextScan]_vars

\* C32: the reads at offset 0 and then at the last offset plus the size
\* returned walk the records of the file in the order of their appends: each
\* read is at the offset of a record and returns that record (type, key and
\* value) with a size above 0 that leads to the offset of the next one, and
\* the read at the offset after the last record fails with ReadDataFileEOF.
C32_SequentialScan ==
    ret.op = "read_log_record" =>
        \E i \in 1..(Len(disk[ScanFileId]) + 1) :
            /\ ret.offset = RecordOffset(disk[ScanFileId], i)
            /\ IF i <= Len(disk[ScanFileId])
               THEN /\ ret.res.err = "ok"
                    /\ ret.res.value.record = disk[ScanFileId][i]
                    /\ ret.res.value.size > 0
                    /\ ret.offset + ret.res.value.size
                         = RecordOffset(disk[ScanFileId], i + 1)
               ELSE ret.res = Err("ReadDataFileEOF")

\* The scan of a file of three records has come to its end.
C32_Witness ==
    /\ ret.op = "read_log_record"
    /\ Len(disk[ScanFileId]) = MaxScanRecords
    /\ ret.offset = FileLen(disk[ScanFileId])
    /\ ret.res = Err("ReadDataFileEOF")
    /\ \E i, j \in 1..MaxScanRecords :
           disk[ScanFileId][i].rec_type # disk[ScanFileId][j].rec_type

(***************************************************************************)
(* Replay of a log of records without sequence number.                     *)
(***************************************************************************)
\* The locator of the record at place p of directory d.
LocatorOf(d, p) == LogRecordPos(p[1], RecordOffset(d[p[1]], p[2]))

\* C33: open applies the records without sequence number in ascending
\* segment id and ascending offset, a NORMAL record entering its user key
\* with its locator and a DELETED one removing it: on a log of such records
\* only, the index of the engine that open returns holds exactly the keys
\* whose latest record is NORMAL, each at the locator of that record.
C33_ReplayOfPointRecords ==
    (opened /\ ret.op = "open" /\ PointPlaces(disk) = Places(disk))
        => /\ \A k \in DOMAIN index :
                /\ RecordsOn(disk, k) # {}
                /\ disk[LatestOn(disk, k)[1]][LatestOn(disk, k)[2]].rec_type
                     = NORMAL
                /\ index[k] = LocatorOf(disk, LatestOn(disk, k))
           /\ \A p \in Places(disk) :
                (/\ p = LatestOn(disk, UserKeyOf(disk[p[1]][p[2]]))
                 /\ disk[p[1]][p[2]].rec_type = NORMAL)
                    => BTree_has(index, UserKeyOf(disk[p[1]][p[2]]))

\* Open has replayed two segments in which the latest record of one key is
\* DELETED and that of another is a NORMAL record that follows an older one.
C33_Witness ==
    /\ opened
    /\ ret.op = "open"
    /\ Cardinality(DOMAIN disk) = 2
    /\ \E p, q, r \in Places(disk) :
          /\ Before(p, q) /\ Before(q, r)
          /\ UserKeyOf(disk[p[1]][p[2]]) = UserKeyOf(disk[q[1]][q[2]])
          /\ UserKeyOf(disk[r[1]][r[2]]) # UserKeyOf(disk[q[1]][q[2]])
          /\ disk[p[1]][p[2]].rec_type = NORMAL
          /\ disk[q[1]][q[2]].rec_type = DELETED
          /\ disk[r[1]][r[2]].rec_type = NORMAL
          /\ ~BTree_has(index, UserKeyOf(disk[q[1]][q[2]]))
          /\ index[UserKeyOf(disk[r[1]][r[2]])] = LocatorOf(disk, r)

(***************************************************************************)
(* The key of the TXNFINISH record.                                        *)
(***************************************************************************)
\* key is TXN_FINISH, bare or behind the varint of a sequence number.
IsSentinelKey(key) ==
    \/ key = TXN_FINISH
    \/ /\ Len(key) > Len(TXN_FINISH)
       /\ SubSeq(key, Len(key) - Len(TXN_FINISH) + 1, Len(key)) = TXN_FINISH

\* C34: the index never holds the key of the TXNFINISH record, with or
\* without the sequence number in front, after any commit and after any
\* replay of a log that holds TXNFINISH records (no call puts that key here).
C34_SentinelNotIndexed ==
    \A key \in DOMAIN index : ~IsSentinelKey(key)

\* An engine opened on a log with a TXNFINISH record, which has since
\* committed a batch of its own, with keys in its index.
C34_Witness ==
    /\ opened
    /\ ret.op = "commit"
    /\ ret.res.err = "ok"
    /\ DOMAIN index # {}
    /\ \E p, q \in FinishPlaces(disk) :
          /\ SeqOf(disk[p[1]][p[2]]) < SeqOf(disk[q[1]][q[2]])
          /\ SeqOf(disk[q[1]][q[2]]) + 1 = seq_no
          /\ file_ids # <<>>

(***************************************************************************)
(* What the locators of the index lead to.                                 *)
(***************************************************************************)
\* The read get_value_by_position does for locator pos.
ReadLocator(d, pos) == read_log_record(d[pos.file_id], pos.offset)

\* C35 (as claimed): in every state of an engine used by one thread, each
\* locator of the index names the active segment or an older segment, and
\* the record stored there is a NORMAL record on the key of the entry.
C35_EntriesResolvable ==
    opened =>
        \A key \in DOMAIN index :
            /\ index[key].file_id \in older_files \cup {active_file.file_id}
            /\ index[key].file_id \in DOMAIN disk
            /\ ReadLocator(disk, index[key]).res = "ok"
            /\ ReadLocator(disk, index[key]).record.rec_type = NORMAL
            /\ UserKeyOf(ReadLocator(disk, index[key]).record) = key

(***************************************************************************)
(* Two deletes of one key at a time.                                       *)
(***************************************************************************)
\* C36 (as claimed): while puts and deletes are the only calls that have
\* written, no delete returns IndexUpdateFailed, whatever the interleaving
\* of two threads that delete a key that is present.
C36_ConcurrentDeletesOk ==
    (ret.op = "delete" /\ PointPlaces(disk) = Places(disk))
        => ret.res.err # "IndexUpdateFailed"

(***************************************************************************)
(* The commit of a batch without staged records.                           *)
(***************************************************************************)
\* A thread is past the first test of commit: it waits for
\* batch_commit_lock or holds it.
InCommit(t) ==
    Local(t).pc \in {"commit_lock", "commit_append", "commit_finish",
                     "commit_sync", "commit_index"}

\* C38: a commit of a batch without staged records returns ok at its first
\* test.  It never comes to batch_commit_lock.lock(), to the fetch_add of
\* seq_no, to an append or to the index: a commit that returns ok without a
\* further step of its thread leaves the lock, seq_no, the files and the
\* index as they are, also while another thread holds the lock.
C38_EmptyCommitNoOp ==
    /\ [](\A t \in Threads : InCommit(t) => Local(t).pending # EmptyMap)
    /\ [][(/\ ret'.op = "commit"
           /\ ret'.res.err = "ok"
           /\ threads' = threads)
          => /\ batch_commit_lock' = batch_commit_lock
             /\ seq_no' = seq_no
             /\ disk' = disk
             /\ active_file' = active_file
             /\ index' = index]_vars

\* An empty commit has returned ok on an engine with a key in its index,
\* where the only other commit so far is the one that holds the lock.
C38_Witness ==
    /\ ret.op = "commit"
    /\ ret.res.err = "ok"
    /\ batch_commit_lock # NoThread
    /\ seq_no = 2
    /\ FinishPlaces(disk) = {}
    /\ DOMAIN index # {}

(***************************************************************************)
(* I/O errors inside append_log_record.  Each call of the file layer that  *)
(* append_log_record ends with `?` can fail: the sync of the segment a     *)
(* rotation closes, the two DataFile::new of a rotation, the write, and    *)
(* with sync_write the sync after the write.                               *)
(***************************************************************************)
\* The directory holds at most this many records, and no commit starts
\* once seq_no is MaxFaultSeq.
MaxFaultRecords == 3
MaxFaultSeq == 3

Faults == {"rotate_sync", "older_new", "active_new", "write", "sync"}
NoFault == "none"

\* The errors of the file layer: FileIO::sync, FileIO::new, FileIO::write
\* (which reports FailedToReadFromDataFile).
IOErrors ==
    {"FailedToSyncFile", "FailedToOpenDataFile", "FailedToReadFromDataFile"}

FaultSt == [disk |-> disk, active_file |-> active_file,
            older_files |-> older_files, stable |-> stable]

\* The rotation: the active segment is synced and entered into older_files,
\* and a new segment becomes the active one.
append_log_record_rotate(st) ==
    [disk |-> new_io_manager(st.disk, st.active_file.file_id + 1),
     active_file |-> DataFile_new(st.active_file.file_id + 1),
     older_files |-> st.older_files \cup {st.active_file.file_id},
     stable |-> Engine_sync(st.stable, st.disk, st.active_file)]

\* active_file.write(&enc_record).
append_log_record_write(st, record) ==
    [st EXCEPT !.disk = [@ EXCEPT ![st.active_file.file_id] = Append(@, record)],
               !.active_file.write_off = @ + Len(encode(record))]

\* The result of append_log_record from the statement after the rotation
\* on; st0 is the state at the call, st1 the state after the rotation.
append_log_record_tail(st1, record, sync_write, fault) ==
    IF fault = "write"
    THEN [st |-> st1, pos |-> LogRecordPos(0, 0),
          err |-> "FailedToReadFromDataFile"]
    ELSE IF sync_write /\ fault = "sync"
    THEN [st |-> append_log_record_write(st1, record),
          pos |-> LogRecordPos(0, 0), err |-> "FailedToSyncFile"]
    ELSE [st |-> IF sync_write
                 THEN [append_log_record_write(st1, record) EXCEPT !.stable =
                          Engine_sync(st1.stable,
                              append_log_record_write(st1, record).disk,
                              st1.active_file)]
                 ELSE append_log_record_write(st1, record),
          pos |-> LogRecordPos(st1.active_file.file_id,
                               st1.active_file.write_off),
          err |-> "none"]

\* append_log_record in which the call named by fault fails, if the append
\* comes to that call.
append_log_record_fault(st, record, sync_write, fault) ==
    IF st.active_file.write_off + Len(encode(record)) > DataFileSize
    THEN IF fault = "rotate_sync"
         THEN [st |-> st, pos |-> LogRecordPos(0, 0),
               err |-> "FailedToSyncFile"]
         ELSE IF fault = "older_new"
         THEN [st |-> [st EXCEPT !.stable =
                           Engine_sync(st.stable, st.disk, st.active_file)],
               pos |-> LogRecordPos(0, 0), err |-> "FailedToOpenDataFile"]
         ELSE IF fault = "active_new"
         THEN [st |-> [st EXCEPT
                           !.stable = Engine_sync(st.stable, st.disk,
                                                  st.active_file),
                           !.older_files = @ \cup {st.active_file.file_id}],
               pos |-> LogRecordPos(0, 0), err |-> "FailedToOpenDataFile"]
         ELSE append_log_record_tail(append_log_record_rotate(st), record,
                                     sync_write, fault)
    ELSE append_log_record_tail(st, record, sync_write, fault)

\* A variant of EnginePutFault that enters the locator into the index
\* whether or not the append failed.
EnginePutFault_IndexAnyway(key, value, fault) ==
    /\ opened
    /\ key # EmptyKey
    /\ LET a == append_log_record_fault(
                    FaultSt,
                    LogRecord(log_record_key_with_seq(key,
                                  NON_TRANSACTION_SEQ_NO), value, NORMAL),
                    options.sync_write, fault)
       IN /\ fault # NoFault => a.err # "none"
          /\ disk' = a.st.disk
          /\ active_file' = a.st.active_file
          /\ older_files' = a.st.older_files
          /\ stable' = a.st.stable
          /\ index' = BTree_put(index, key, a.pos)
          /\ ret' = Ret("put", key, IF a.err = "none" THEN Ok(<<>>)
                                    ELSE Err(a.err))
    /\ UNCHANGED <<opened, file_ids, seq_no, wb, ghostVars, concVars, cursor,
                  options, locks>>

\* Engine::put with a fault in its append.
EnginePutFault(key, value, fault) ==
    /\ opened
    /\ key # EmptyKey
    /\ LET a == append_log_record_fault(
                    FaultSt,
                    LogRecord(log_record_key_with_seq(key,
                                  NON_TRANSACTION_SEQ_NO), value, NORMAL),
                    options.sync_write, fault)
       IN /\ fault # NoFault => a.err # "none"
          /\ disk' = a.st.disk
          /\ active_file' = a.st.active_file
          /\ older_files' = a.st.older_files
          /\ stable' = a.st.stable
          /\ IF a.err = "none"
             THEN /\ index' = BTree_put(index, key, a.pos)
                  /\ ret' = Ret("put", key, Ok(<<>>))
             ELSE /\ index' = index
                  /\ ret' = Ret("put", key, Err(a.err))
    /\ UNCHANGED <<opened, file_ids, seq_no, wb, ghostVars, concVars, cursor,
                  options, locks>>

\* Engine::delete with a fault in its append.
EngineDeleteFault(key, fault) ==
    /\ opened
    /\ key # EmptyKey
    /\ BTree_has(index, key)
    /\ LET a == append_log_record_fault(
                    FaultSt,
                    LogRecord(log_record_key_with_seq(key,
                                  NON_TRANSACTION_SEQ_NO), <<>>, DELETED),
                    options.sync_write, fault)
       IN /\ fault # NoFault => a.err # "none"
          /\ disk' = a.st.disk
          /\ active_file' = a.st.active_file
          /\ older_files' = a.st.older_files
          /\ stable' = a.st.stable
          /\ IF a.err = "none"
             THEN /\ index' = BTree_delete(index, key)
                  /\ ret' = Ret("delete", key, Ok(<<>>))
             ELSE /\ index' = index
                  /\ ret' = Ret("delete", key, Err(a.err))
    /\ UNCHANGED <<opened, file_ids, seq_no, wb, ghostVars, concVars, cursor,
                  options, locks>>

\* The appends of commit, one after the other, the j-th of them with the
\* fault; the first error ends them.  acc = [st, positions, err].
RECURSIVE AppendAll(_, _, _, _, _)
AppendAll(acc, records, sync_write, j, fault) ==
    IF records = <<>> \/ acc.err # "none" THEN acc
    ELSE AppendAll(
             [st |-> append_log_record_fault(
                         acc.st, Head(records), sync_write,
                         IF j = 1 THEN fault ELSE NoFault).st,
              positions |-> Append(acc.positions,
                     append_log_record_fault(
                         acc.st, Head(records), sync_write,
                         IF j = 1 THEN fault ELSE NoFault).pos),
              err |-> append_log_record_fault(
                         acc.st, Head(records), sync_write,
                         IF j = 1 THEN fault ELSE NoFault).err],
             Tail(records), sync_write, j - 1, fault)

\* The records commit appends under seq: the staged ones in the order ord,
\* then the TXNFINISH record.
CommitRecords(pending, ord, seq) ==
    [i \in 1..Len(ord) |->
        LogRecord(log_record_key_with_seq(pending[ord[i]].key, seq),
                  pending[ord[i]].value, pending[ord[i]].rec_type)]
        \o <<finish_record(seq)>>

\* WriteBatch::commit of a batch within its limit, with the fault in its
\* j-th append.
CommitFault(ord, j, fault) ==
    /\ opened
    /\ wb.exists
    /\ ord \in Orders(DOMAIN wb.pending_writes)
    /\ Len(ord) > 0
    /\ Len(ord) <= wb.max_batch_num
    /\ LET r == AppendAll([st |-> FaultSt, positions |-> <<>>, err |-> "none"],
                          CommitRecords(wb.pending_writes, ord, seq_no),
                          options.sync_write, j, fault)
       IN /\ fault # NoFault => r.err # "none"
          /\ disk' = r.st.disk
          /\ active_file' = r.st.active_file
          /\ older_files' = r.st.older_files
          /\ IF r.err = "none"
             THEN /\ stable' = IF options.sync_writes
                               THEN Engine_sync(r.st.stable, r.st.disk,
                                                r.st.active_file)
                               ELSE r.st.stable
                  /\ index' = InstallStaged(
                         index, wb.pending_writes, ord,
                         [k \in DOMAIN wb.pending_writes |->
                            r.positions[CHOOSE i \in 1..Len(ord) : ord[i] = k]])
                  /\ wb' = [wb EXCEPT !.pending_writes = EmptyMap]
                  /\ ret' = Ret("commit", EmptyKey, Ok(<<>>))
             ELSE /\ stable' = r.st.stable
                  /\ index' = index
                  /\ wb' = wb
                  /\ ret' = Ret("commit", EmptyKey, Err(r.err))
    /\ seq_no' = seq_no + 1
    /\ UNCHANGED <<opened, file_ids, ghostVars, concVars, cursor, options,
                  locks>>

FaultKeys == {<<97>>}
FaultRoom(n) == TotalRecords + n <= MaxFaultRecords

PutFault ==
    \E key \in FaultKeys, fault \in Faults \cup {NoFault} :
        FaultRoom(1) /\ EnginePutFault(key, Val(1, 40), fault)
DeleteFault ==
    \E key \in FaultKeys, fault \in Faults \cup {NoFault} :
        FaultRoom(1) /\ EngineDeleteFault(key, fault)
CommitWithFault ==
    \E ord \in Orders(DOMAIN wb.pending_writes) :
        \E j \in 1..(Len(ord) + 1), fault \in Faults \cup {NoFault} :
            /\ FaultRoom(Len(ord) + 1)
            /\ seq_no < MaxFaultSeq
            /\ CommitFault(ord, j, fault)

NextFault ==
    \/ SetOptions
    \/ Open
    \/ PutFault
    \/ DeleteFault
    \/ NewWriteBatch(Cardinality(FaultKeys))
    \/ BatchPut(FaultKeys, {Val(2, 45)})
    \/ BatchDelete(FaultKeys)
    \/ CommitWithFault

SpecFault == Init /\ [][NextFault]_vars

\* f is a prefix of g.
IsPrefix(f, g) == Len(f) <= Len(g) /\ SubSeq(g, 1, Len(f)) = f

\* A step in which put, delete or commit returns an error of the file
\* layer, and what every such step keeps: the index, the records of the
\* log, and for commit its staged records, while seq_no has grown by the
\* number the commit took.  At most one append was tried for each record.
FailedAppendStep ==
    ret'.op \in {"put", "delete", "commit"} /\ ret'.res.err \in IOErrors

FailedAppendKeeps ==
    /\ index' = index
    /\ \A fid \in DOMAIN disk : IsPrefix(disk[fid], disk'[fid])
    /\ ret'.op \in {"put", "delete"} => TotalRecords' <= TotalRecords + 1
    /\ ret'.op = "commit"
         => /\ wb' = wb
            /\ seq_no' > seq_no
            /\ TotalRecords' <= TotalRecords
                                  + Cardinality(DOMAIN wb.pending_writes) + 1

\* The TXNFINISH records of sequence number seq in directory d.
FinishOf(d, seq) == {p \in FinishPlaces(d) : SeqOf(d[p[1]][p[2]]) = seq}

\* C37 (as claimed): a put, delete or commit in which an append fails with
\* an I/O error returns that error after one attempt and leaves the index as
\* it was; a commit also keeps its staged records, has taken a sequence
\* number that no later commit takes, and leaves what it appended in the
\* log without the TXNFINISH record of that sequence number.
C37_FailedAppend ==
    [][FailedAppendStep
       => /\ FailedAppendKeeps
          /\ ret'.op = "commit" => FinishOf(disk', seq_no) = {}]_vars

\* C37 (amended): the same, but the TXNFINISH record is in the log when
\* the call that failed is the sync after its write (sync_write); after
\* every other failure the log holds no TXNFINISH record of the commit.
C37_FailedAppendAmended ==
    [][FailedAppendStep
       => /\ FailedAppendKeeps
          /\ (ret'.op = "commit" /\ FinishOf(disk', seq_no) # {})
               => /\ options.sync_write
                  /\ ret'.res.err = "FailedToSyncFile"]_vars

\* A commit has failed after it appended a record: the record is in the
\* log without TXNFINISH, the batch still holds its staged record, the
\* index holds what an earlier put entered, and seq_no has grown.
C37_Witness ==
    /\ ret.op = "commit"
    /\ ret.res.err \in IOErrors
    /\ wb.pending_writes # EmptyMap
    /\ seq_no = 2
    /\ DOMAIN index # {}
    /\ FinishPlaces(disk) = {}
    /\ \E p \in Places(disk) : SeqOf(disk[p[1]][p[2]]) = 1

====
